---- MODULE Spec2Model ----
(***************************************************************************)
(* Model of the execution and scoring engine of go_eval_agent:             *)
(*   - pkg/mock     MockRegistry (Resolve, Register, GetCalls)             *)
(*   - pkg/trace    AgentTrace                                             *)
(*   - pkg/runner   Runner.Run and Runner.runCase                          *)
(*   - pkg/judge    CompositeScorer.Score                                  *)
(*   - pkg/diff     Compare                                                *)
(*                                                                         *)
(* Conventions.  A Go string is a sequence of tokens, so that "" is <<>>   *)
(* and fmt.Sprintf concatenation is \o.  A Go error is the token sequence  *)
(* of its message and the nil error is <<>>.  A nil pointer is the empty   *)
(* sequence and a non-nil pointer a one-element sequence.  Wall-clock      *)
(* timestamps and durations are left out.                                  *)
(***************************************************************************)
EXTENDS Integers, Sequences, FiniteSets, TLC

VARIABLES
    \* ---- Runner.runCase, one case (SpecCase) ----
    caseIn,         \* the suite.EvalCase being executed
    script,         \* the provider's behaviour for this conversation
    rc,             \* runCase's frame: position, locals, trace and registry
    expired,        \* caseCtx's deadline has passed
    pending,        \* the tool calls of the current turn not yet resolved
    \* ---- Runner.Run (Spec) ----
    configured,     \* Config.Concurrency as passed to New
    cfgConcurrency, \* r.cfg.Concurrency
    suite,          \* s.Cases
    hasProgress,    \* progress != nil
    mainPc,         \* position of Run's own goroutine
    spawned,        \* number of loop iterations of Run's for loop done
    wg,             \* sync.WaitGroup counter
    sem,            \* number of tokens held in the sem channel
    completed,      \* completed counter
    resultCases,    \* result.Cases
    gpc,            \* position of each case goroutine
    cr,             \* each goroutine's local cr
    current,        \* each goroutine's local current
    provided,       \* what the provider did for each case's conversation
    progressCalls,  \* the progress callback invocations, in order
    runRet,         \* Run's returned error
    \* ---- MockRegistry with concurrent callers (SpecMock) ----
    reg,            \* the MockRegistry: mocks, callIdx, calls
    cpc,            \* position of each caller inside Resolve
    clocal,         \* each caller's locals inside Resolve
    served,         \* what each Resolve call returns, in lock order
    reRegistered,   \* tool names whose config was replaced by Register
    \* ---- CompositeScorer.Score (SpecScore) ----
    cs,             \* the CompositeScorer
    configs,        \* the []JudgeConfig argument, with each judge's verdict
    sc,             \* Score's frame: position, locals and returned result
    \* ---- diff.Compare (SpecDiff) ----
    runA,           \* a.Results
    runB,           \* b.Results
    diffThreshold,  \* the threshold argument
    df,             \* Compare's frame: position, locals and the DiffResult
    \* ---- AgentTrace with concurrent callers (SpecTrace) ----
    trace,          \* the AgentTrace: Messages, ToolCalls, Usage
    heap,           \* the parameter maps, by address
    mu,             \* holder of t.mu, 0 when it is free
    tpc,            \* position of each caller inside a trace method
    tlocal,         \* each caller's locals and the values returned to it
    tlog,           \* the calls that have completed
    \* ---- a vendor provider's Complete (SpecRetry) ----
    maxRetries,     \* p.maxRetries
    bodyOK,         \* buildRequestBody succeeds for the request
    outcomes,       \* what the API does with each HTTP attempt, in order
    ctxDone,        \* ctx has been cancelled or has expired
    pr,             \* Complete's frame: position, locals, returned values
    \* ---- ToolCallJudge.Evaluate (SpecToolJudge) ----
    tjExpected,     \* j.Expected
    tjActual,       \* input.ToolCalls
    tj,             \* Evaluate's frame: position, locals and the Result
    \* ---- Reviewer.Review (SpecReview) ----
    rvGiven,        \* summary.Results as they were when Review was called
    rvSummary,      \* the RunSummary that Review updates
    rvFilter,       \* the filter given to Review
    rvIn,           \* the lines of r.In not read yet
    rv              \* Review's frame: position, locals, returned values

caseVars  == <<caseIn, script, rc, expired, pending>>
runVars   == <<configured, cfgConcurrency, suite, hasProgress, mainPc, spawned,
               wg, sem, completed, resultCases, gpc, cr, current, provided,
               progressCalls, runRet>>
mockVars  == <<reg, cpc, clocal, served, reRegistered>>
scoreVars == <<cs, configs, sc>>
diffVars  == <<runA, runB, diffThreshold, df>>
traceVars == <<trace, heap, mu, tpc, tlocal, tlog>>
retryVars == <<maxRetries, bodyOK, outcomes, ctxDone, pr>>
judgeVars == <<tjExpected, tjActual, tj>>
reviewVars == <<rvGiven, rvSummary, rvFilter, rvIn, rv>>
unitVars  == <<retryVars, judgeVars, reviewVars>>
vars      == <<caseVars, runVars, mockVars, scoreVars, diffVars, traceVars,
               unitVars>>

-----------------------------------------------------------------------------
(* Bounds of the model *)

NumCases     == 2   \* cases in the suite given to Run
MaxScript    == 1   \* provider turns that vary before its behaviour repeats
MaxConcurrency == 2 \* largest Config.Concurrency given to New
NumCallers   == 2   \* goroutines calling Resolve on one registry
MaxCalls     == 4   \* Resolve calls made on the shared registry
MaxResponses == 2   \* one-shot responses configured for a tool
MaxJudges    == 2   \* judges given to Score
MaxRunLen    == 2   \* cases in each of the two runs given to Compare
NumTraceCallers == 2 \* goroutines calling the methods of one trace
MaxTraceOps  == 3   \* method calls made on the shared trace
MaxRetryLimit == 2  \* largest maxRetries a provider is built with
MaxExpected  == 2   \* expectations of a ToolCallJudge
MaxActual    == 3   \* tool calls in the input given to a ToolCallJudge
MaxReviewCases == 2 \* case results in the summary given to Review
MaxLines     == 2   \* lines of input the reviewer types

(* Program constants *)

MaxToolLoopIterations == 20

Nil      == <<>>    \* nil error, nil pointer
EmptyStr == <<>>    \* ""

-----------------------------------------------------------------------------
(* pkg/mock *)

ToolNames == {"calculator", "search", "unknown_tool"}

MockResponse(content, error, delay) ==
    [Content |-> content, Error |-> error, Delay |-> delay]

MockConfig(toolName, responses, defaultResponse) ==
    [ToolName |-> toolName, Responses |-> responses,
     DefaultResponse |-> defaultResponse]

ErrNoMock(toolName) == <<"no mock configured for tool ", toolName>>

ErrExhausted(toolName) ==
    <<"mock for tool ", toolName,
      ": sequential responses exhausted and no default_response configured">>

ErrMock(toolName, errMsg) == <<"mock error for tool ", toolName, ": ">> \o errMsg

\* NewRegistry: a later config for the same tool name overwrites an earlier.
NewRegistry(cfgs) ==
    LET names == {cfgs[i].ToolName : i \in 1..Len(cfgs)}
        last(t) == CHOOSE i \in 1..Len(cfgs) :
                      /\ cfgs[i].ToolName = t
                      /\ \A j \in 1..Len(cfgs) : cfgs[j].ToolName = t => j <= i
    IN [mocks   |-> [t \in names |-> cfgs[last(t)]],
        callIdx |-> [t \in ToolNames |-> 0],
        calls   |-> <<>>]

\* Mutation: Register starts the tool's sequence again from its first response.
RegisterConfig_Reset(r, config) ==
    [r EXCEPT !.mocks = [t \in (DOMAIN r.mocks) \cup {config.ToolName} |->
                            IF t = config.ToolName THEN config ELSE r.mocks[t]],
              !.callIdx[config.ToolName] = 0]

\* Register: r.mocks[config.ToolName] = &config, under the lock.
RegisterConfig(r, config) ==
    [r EXCEPT !.mocks = [t \in (DOMAIN r.mocks) \cup {config.ToolName} |->
                            IF t = config.ToolName THEN config ELSE r.mocks[t]]]

\* Mutation: a consumed one-shot response does not advance the index.
NextCallIdx_Stuck(idx) == idx

\* The index advance of a consumed one-shot response.
NextCallIdx(idx) == idx + 1

\* Mutation: a call for an unmocked tool still counts against the tool.
SelectUnmocked_Counts(r, toolName) ==
    [reg |-> [r EXCEPT !.callIdx[toolName] = @ + 1], early |-> TRUE,
     content |-> EmptyStr, errMsg |-> EmptyStr, delay |-> 0,
     err |-> ErrNoMock(toolName)]

\* Resolve when r.mocks has no entry for the tool: unlock and fail.
SelectUnmocked(r, toolName) ==
    [reg |-> r, early |-> TRUE, content |-> EmptyStr, errMsg |-> EmptyStr,
     delay |-> 0, err |-> ErrNoMock(toolName)]

\* Resolve, first critical section: look the tool up, select the response,
\* advance the per-tool index.  early = TRUE is a return from inside the
\* section (unmocked tool, exhausted sequence).
ResolveSelect(r, toolName) ==
    IF toolName \notin DOMAIN r.mocks
    THEN SelectUnmocked(r, toolName)
    ELSE LET cfg == r.mocks[toolName]
             idx == r.callIdx[toolName]
         IN IF idx < Len(cfg.Responses)
            THEN LET resp == cfg.Responses[idx + 1]
                 IN [reg |-> [r EXCEPT !.callIdx[toolName] = NextCallIdx(idx)],
                     early |-> FALSE, content |-> resp.Content,
                     errMsg |-> resp.Error, delay |-> resp.Delay, err |-> Nil]
            ELSE IF cfg.DefaultResponse # Nil
            THEN LET resp == cfg.DefaultResponse[1]
                 IN [reg |-> r, early |-> FALSE, content |-> resp.Content,
                     errMsg |-> resp.Error, delay |-> resp.Delay, err |-> Nil]
            ELSE [reg |-> r, early |-> TRUE, content |-> EmptyStr,
                  errMsg |-> EmptyStr, delay |-> 0,
                  err |-> ErrExhausted(toolName)]

ToolCallRecord(toolName, params, content, errMsg) ==
    [ToolName |-> toolName, Parameters |-> params, Response |-> content,
     Error |-> errMsg]

\* Resolve, second critical section: append the record to the call log.
ResolveRecord(r, toolName, params, content, errMsg) ==
    [r EXCEPT !.calls = Append(@, ToolCallRecord(toolName, params, content, errMsg))]

\* What Resolve returns once the record is appended.
ResolveReturn(toolName, content, errMsg) ==
    IF errMsg # EmptyStr
    THEN [content |-> EmptyStr, err |-> ErrMock(toolName, errMsg)]
    ELSE [content |-> content, err |-> Nil]

\* Resolve called by a single goroutine: both sections in sequence.
Resolve(r, toolName, params) ==
    LET s == ResolveSelect(r, toolName)
    IN IF s.early
       THEN [reg |-> s.reg, content |-> EmptyStr, err |-> s.err]
       ELSE LET ret == ResolveReturn(toolName, s.content, s.errMsg)
            IN [reg |-> ResolveRecord(s.reg, toolName, params, s.content, s.errMsg),
                content |-> ret.content, err |-> ret.err]

GetCalls(r) == r.calls

-----------------------------------------------------------------------------
(* pkg/trace *)

NewTrace ==
    [Messages |-> <<>>, ToolCalls |-> <<>>,
     Usage |-> [InputTokens |-> 0, OutputTokens |-> 0, TotalTokens |-> 0],
     Finished |-> FALSE]

AddMessage(t, role, content) ==
    [t EXCEPT !.Messages = Append(@, [Role |-> role, Content |-> content])]

AddToolCall(t, tc) == [t EXCEPT !.ToolCalls = Append(@, tc)]

\* Mutation: the totals are overwritten by the last response's counts.
AddUsage_Overwrite(t, input, output) ==
    [t EXCEPT !.Usage = [InputTokens |-> input, OutputTokens |-> output,
                         TotalTokens |-> input + output]]

\* Mutation: the total is advanced by the input tokens only.
AddUsage_TotalFromInput(t, input, output) ==
    [t EXCEPT !.Usage = [InputTokens  |-> @.InputTokens + input,
                         OutputTokens |-> @.OutputTokens + output,
                         TotalTokens  |-> @.TotalTokens + input]]

AddUsage(t, input, output) ==
    [t EXCEPT !.Usage = [InputTokens  |-> @.InputTokens + input,
                         OutputTokens |-> @.OutputTokens + output,
                         TotalTokens  |-> @.TotalTokens + input + output]]

Finish(t) == [t EXCEPT !.Finished = TRUE]

\* A ToolCallTrace as its caller builds it.  Parameters is a Go map, a
\* reference: here the address of the map in the heap.
ToolCallTrace(toolName, parameters) ==
    [ToolName |-> toolName, Parameters |-> parameters, Response |-> EmptyStr,
     Error |-> EmptyStr]

\* out := make([]Message, len(t.Messages)); copy(out, t.Messages)
GetMessages(t) == [k \in 1..Len(t.Messages) |-> t.Messages[k]]

\* out := make([]ToolCallTrace, len(t.ToolCalls)); copy(out, t.ToolCalls):
\* each element is copied by value, its Parameters field is the same map.
GetToolCalls(t) == [k \in 1..Len(t.ToolCalls) |-> t.ToolCalls[k]]

GetUsage(t) == t.Usage

\* Mutation: Lock succeeds whether or not the mutex is held.
MutexFree_Ignored(m) == TRUE

\* t.mu.Lock() proceeds only while no caller holds the mutex.
MutexFree(m) == m = 0

-----------------------------------------------------------------------------
(* pkg/provider as seen by runCase: a scripted Provider *)

Usage(input, output) == [InputTokens |-> input, OutputTokens |-> output]

ToolCall(id, name, params) == [ID |-> id, Name |-> name, Parameters |-> params]

Response(content, toolCalls, usage) ==
    [err |-> Nil, Content |-> content, ToolCalls |-> toolCalls, Usage |-> usage]

ProviderError(err) ==
    [err |-> err, Content |-> EmptyStr, ToolCalls |-> <<>>, Usage |-> Usage(0, 0)]

RespFinal  == Response(<<"The answer is 4.">>, <<>>, Usage(3, 1))
RespTool1  == Response(EmptyStr, <<ToolCall("tc1", "calculator", "expr")>>, Usage(2, 1))
RespTool2  == Response(<<"searching">>,
                       <<ToolCall("tc2", "search", "q"),
                         ToolCall("tc3", "unknown_tool", "x")>>, Usage(1, 2))
RespError  == ProviderError(<<"connection refused">>)
RespCtxErr == ProviderError(<<"context deadline exceeded">>)
RespCanceled == ProviderError(<<"context canceled">>)

ToolResponses == {RespTool1, RespTool2}
AllResponses  == {RespFinal, RespTool1, RespTool2, RespError, RespCtxErr}

RECURSIVE SeqsUpTo(_, _)
SeqsUpTo(S, n) ==
    IF n = 0 THEN {<<>>}
    ELSE LET shorter == SeqsUpTo(S, n - 1)
         IN shorter \cup {Append(q, x) : q \in shorter, x \in S}

\* A script: the first Len(prefix) calls request tools as listed, every later
\* call gets the same answer.
Scripts == [prefix : SeqsUpTo(ToolResponses, MaxScript), tail : AllResponses]

\* p.Complete for the n-th call (n counted from 0) of one conversation.
Complete(s, n) == IF n < Len(s.prefix) THEN s.prefix[n + 1] ELSE s.tail

-----------------------------------------------------------------------------
(* pkg/prompt and pkg/suite *)

PromptVariant ==
    [Name |-> <<"test-prompt">>, System |-> <<"You are a test assistant.">>,
     UserVar |-> "question"]

\* Mutation: a variable the input does not define renders as "<no value>"
\* instead of failing.
Interpolate_Lenient(pv, input) ==
    [err |-> Nil, System |-> pv.System,
     User |-> <<"Question: ", IF pv.UserVar \in DOMAIN input
                              THEN input[pv.UserVar] ELSE "<no value>">>]

\* Interpolate: rendering fails when the template names a variable that the
\* case's input does not define (missingkey=error).
Interpolate(pv, input) ==
    IF pv.UserVar \in DOMAIN input
    THEN [err |-> Nil, System |-> pv.System,
          User |-> <<"Question: ", input[pv.UserVar]>>]
    ELSE [err |-> <<"interpolating user prompt for ">> \o pv.Name
                    \o <<": executing template: map has no entry for key ",
                         pv.UserVar>>,
          System |-> EmptyStr, User |-> EmptyStr]

CaseMocks ==
    << MockConfig("calculator", <<>>, <<MockResponse(<<"4">>, EmptyStr, 0)>>),
       MockConfig("search",
                  <<MockResponse(EmptyStr, <<"permission denied">>, 0)>>, Nil) >>

GoodInput == [v \in {"question"} |-> "What is 2+2?"]
BadInput  == [v \in {"other"} |-> "unused"]

EvalCase(id, input) ==
    [ID |-> id, Name |-> <<"case-", ToString(id)>>, Input |-> input, Mocks |-> CaseMocks]

-----------------------------------------------------------------------------
(* pkg/runner: runCase *)

Frame0 ==
    [pc |-> "start", iteration |-> 0, calls |-> 0, messages |-> <<>>,
     tr |-> Nil, registry |-> NewRegistry(<<>>),
     cr |-> [CaseName |-> EmptyStr, CaseID |-> 0, Prompt |-> EmptyStr,
             Model |-> EmptyStr, FinalResponse |-> EmptyStr, Trace |-> Nil,
             Error |-> EmptyStr]]

ProviderMessage(role, content, toolCalls, toolCallID) ==
    [Role |-> role, Content |-> content, ToolCalls |-> toolCalls,
     ToolCallID |-> toolCallID]

\* runCase up to the loop: the result header, the registry, interpolation,
\* the trace and the seeding user message.
CaseStart(c, pv) ==
    LET cr0 == [CaseName |-> c.Name, CaseID |-> c.ID, Prompt |-> pv.Name,
                Model |-> EmptyStr, FinalResponse |-> EmptyStr, Trace |-> Nil,
                Error |-> EmptyStr]
        rendered == Interpolate(pv, c.Input)
    IN IF rendered.err # Nil
       THEN [Frame0 EXCEPT !.pc = "returned",
                           !.registry = NewRegistry(c.Mocks),
                           !.cr = [cr0 EXCEPT !.Error =
                                      <<"interpolating prompt: ">> \o rendered.err]]
       ELSE [Frame0 EXCEPT !.pc = "loop",
                           !.registry = NewRegistry(c.Mocks),
                           !.cr = cr0,
                           !.tr = <<AddMessage(NewTrace, "user", rendered.User)>>,
                           !.messages = <<ProviderMessage("user", rendered.User,
                                                          <<>>, EmptyStr)>>]

\* Mutation: the loop condition lets one more iteration through.
LoopGuard_OffByOne(iteration) == iteration <= MaxToolLoopIterations

\* The loop condition of the tool loop.
LoopGuard(iteration) == iteration < MaxToolLoopIterations

\* Mutation: the tool calls of a turn are taken last first.
ToolCallAt_Reversed(tcs, i) == tcs[Len(tcs) + 1 - i]

\* for _, tc := range resp.ToolCalls: the i-th element visited.
ToolCallAt(tcs, i) == tcs[i]

\* Mutation: the tool-result message carries the mock's content even when the
\* resolution failed.
ToolContent_Raw(content, mockErr) == content

\* The content of the tool-result message: the mock's content, or "Error: "
\* and the error text when the resolution failed.
ToolContent(content, mockErr) ==
    IF mockErr # Nil THEN <<"Error: ">> \o mockErr ELSE content

\* The body of the range loop for one tool call: resolve it, record it in the
\* trace, append the tool-result message to the conversation and the trace.
ResolveOne(st, tc) ==
    LET res == Resolve(st.registry, tc.Name, tc.Parameters)
        tcTrace == [ToolName |-> tc.Name, Parameters |-> tc.Parameters,
                    Response |-> res.content, Error |-> res.err]
        toolContent == ToolContent(res.content, res.err)
    IN [st EXCEPT
          !.registry = res.reg,
          !.tr = <<AddMessage(AddToolCall(@[1], tcTrace), "tool", toolContent)>>,
          !.messages = Append(@, ProviderMessage("tool", toolContent,
                                                 <<>>, tc.ID))]

\* Resolve each tool call of one turn, from position i on, in order.
RECURSIVE ResolveToolCalls(_, _, _)
ResolveToolCalls(st, tcs, i) ==
    IF i > Len(tcs) THEN st
    ELSE ResolveToolCalls(ResolveOne(st, ToolCallAt(tcs, i)), tcs, i + 1)

\* The loop body up to the range loop over the tool calls, resp being what
\* p.Complete returned: pc "break" when the loop is left, "tools" when the
\* tool calls of resp are to be resolved.
TurnHead(st, resp) ==
    IF resp.err # Nil
    THEN [st EXCEPT !.calls = @ + 1,
                    !.cr.Error = <<"provider error: ">> \o resp.err,
                    !.pc = "break"]
    ELSE LET st1 == [st EXCEPT
                       !.calls = @ + 1,
                       !.cr.Model = EmptyStr,
                       !.tr = <<AddUsage(@[1], resp.Usage.InputTokens,
                                         resp.Usage.OutputTokens)>>]
         IN IF Len(resp.ToolCalls) = 0
            THEN [st1 EXCEPT !.tr = <<AddMessage(@[1], "assistant", resp.Content)>>,
                             !.cr.FinalResponse = resp.Content,
                             !.pc = "break"]
            ELSE [st1 EXCEPT
                    !.tr = <<AddMessage(@[1], "assistant", resp.Content)>>,
                    !.messages = Append(@, ProviderMessage("assistant",
                                    resp.Content, resp.ToolCalls, EmptyStr)),
                    !.pc = "tools"]

\* One pass of the loop body, resp being what p.Complete returned.
LoopIteration(st, resp) ==
    LET head == TurnHead(st, resp)
    IN IF head.pc = "tools"
       THEN [ResolveToolCalls(head, resp.ToolCalls, 1) EXCEPT
                !.iteration = @ + 1, !.pc = "loop"]
       ELSE head

\* Mutation: the result is returned without the trace.
CaseReturn_NoTrace(st) ==
    [st EXCEPT !.tr = <<Finish(@[1])>>, !.pc = "returned"]

\* After the loop: tr.Finish() and return cr, whose Trace is the trace.
CaseReturn(st) ==
    [st EXCEPT !.tr = <<Finish(@[1])>>,
               !.cr.Trace = <<Finish(st.tr[1])>>,
               !.pc = "returned"]

RECURSIVE RunLoop(_, _)
RunLoop(st, s) ==
    IF st.pc = "loop" /\ LoopGuard(st.iteration)
    THEN RunLoop(LoopIteration(st, Complete(s, st.calls)), s)
    ELSE st

\* runCase as one call: the frame at its return.
runCase(c, pv, s) ==
    LET s0 == CaseStart(c, pv)
    IN IF s0.pc = "returned" THEN s0 ELSE CaseReturn(RunLoop(s0, s))

-----------------------------------------------------------------------------
(* Idle values: each specification leaves the other components untouched *)

IdleCase ==
    /\ caseIn = EvalCase(1, GoodInput)
    /\ script = [prefix |-> <<>>, tail |-> RespFinal]
    /\ rc = Frame0
    /\ expired = FALSE
    /\ pending = <<>>

IdleRun ==
    /\ configured = 1 /\ cfgConcurrency = 1 /\ suite = <<>>
    /\ hasProgress = FALSE /\ mainPc = "idle" /\ spawned = 0 /\ wg = 0
    /\ sem = 0 /\ completed = 0 /\ resultCases = <<>> /\ gpc = <<>>
    /\ cr = <<>> /\ current = <<>> /\ provided = <<>> /\ progressCalls = <<>>
    /\ runRet = Nil

IdleMock ==
    /\ reg = NewRegistry(<<>>) /\ cpc = <<>> /\ clocal = <<>>
    /\ served = <<>> /\ reRegistered = {}

IdleScore ==
    /\ cs = [Threshold |-> [num |-> 1, den |-> 2]] /\ configs = <<>>
    /\ sc = [pc |-> "idle"]

IdleDiff ==
    /\ runA = <<>> /\ runB = <<>> /\ diffThreshold = [num |-> 0, den |-> 1]
    /\ df = [pc |-> "idle"]

IdleTrace ==
    /\ trace = NewTrace /\ heap = <<>> /\ mu = 0 /\ tpc = <<>>
    /\ tlocal = <<>> /\ tlog = <<>>

IdleRetry ==
    /\ maxRetries = 0 /\ bodyOK = TRUE /\ outcomes = <<>> /\ ctxDone = FALSE
    /\ pr = [pc |-> "idle"]

IdleToolJudge ==
    /\ tjExpected = <<>> /\ tjActual = <<>> /\ tj = [pc |-> "idle"]

IdleReview ==
    /\ rvGiven = <<>> /\ rvSummary = <<>> /\ rvFilter = "" /\ rvIn = <<>>
    /\ rv = [pc |-> "idle"]

IdleUnits == IdleRetry /\ IdleToolJudge /\ IdleReview

-----------------------------------------------------------------------------
(* SpecCase: one runCase call, one action per provider turn *)

CaseInputs == {EvalCase(1, GoodInput), EvalCase(1, BadInput)}

InitCase ==
    /\ caseIn \in CaseInputs
    /\ script \in Scripts
    /\ rc = Frame0
    /\ expired = FALSE
    /\ pending = <<>>
    /\ IdleRun /\ IdleMock /\ IdleScore /\ IdleDiff /\ IdleTrace
    /\ IdleUnits

\* runCase from its entry to the first evaluation of the loop condition.
CaseBegin ==
    /\ rc.pc = "start"
    /\ rc' = CaseStart(caseIn, PromptVariant)
    /\ UNCHANGED <<caseIn, script, expired, pending, runVars, mockVars, scoreVars,
                   diffVars, traceVars, unitVars>>

\* One iteration of the tool loop: the provider call and everything the body
\* does with its result.
CaseTurn ==
    /\ rc.pc = "loop"
    /\ LoopGuard(rc.iteration)
    /\ rc' = LoopIteration(rc, Complete(script, rc.calls))
    /\ UNCHANGED <<caseIn, script, expired, pending, runVars, mockVars, scoreVars,
                   diffVars, traceVars, unitVars>>

\* The loop is left (break, or the condition is false): finish and return.
CaseEnd ==
    /\ \/ rc.pc = "break"
       \/ rc.pc = "loop" /\ ~LoopGuard(rc.iteration)
    /\ rc' = CaseReturn(rc)
    /\ UNCHANGED <<caseIn, script, expired, pending, runVars, mockVars, scoreVars,
                   diffVars, traceVars, unitVars>>

NextCase == CaseBegin \/ CaseTurn \/ CaseEnd

SpecCase == InitCase /\ [][NextCase]_vars

\* runCase is straight-line code in one goroutine: it keeps running.
FairSpecCase == SpecCase /\ WF_vars(NextCase)

-----------------------------------------------------------------------------
(* SpecDeadline: one runCase call under its timeout, one action per provider
   call and per tool call; the provider honours the context it is given *)

\* The timer of context.WithTimeout fires while the loop is running.
Expire ==
    /\ ~expired
    /\ \/ rc.pc = "tools"
       \/ rc.pc = "loop" /\ LoopGuard(rc.iteration)
    /\ expired' = TRUE
    /\ UNCHANGED <<caseIn, script, rc, pending, runVars, mockVars, scoreVars,
                   diffVars, traceVars, unitVars>>

\* p.Complete(caseCtx, req) and the loop body up to the range loop.  The
\* provider returns the context's error once the deadline has passed.
DeadlineTurn ==
    /\ rc.pc = "loop"
    /\ LoopGuard(rc.iteration)
    /\ LET resp == IF expired THEN RespCtxErr ELSE Complete(script, rc.calls)
           head == TurnHead(rc, resp)
       IN /\ rc' = head
          /\ pending' = IF head.pc = "tools" THEN resp.ToolCalls ELSE <<>>
    /\ UNCHANGED <<caseIn, script, expired, runVars, mockVars, scoreVars,
                   diffVars, traceVars, unitVars>>

\* One pass of the range loop: registry.Resolve(tc.Name, tc.Parameters), which
\* takes no context, and the recording of its result.  After the last tool
\* call of the turn the for statement increments iteration.
DeadlineResolve ==
    /\ rc.pc = "tools"
    /\ pending # <<>>
    /\ LET st == ResolveOne(rc, ToolCallAt(pending, 1))
       IN rc' = IF Len(pending) = 1
                THEN [st EXCEPT !.iteration = @ + 1, !.pc = "loop"]
                ELSE st
    /\ pending' = Tail(pending)
    /\ UNCHANGED <<caseIn, script, expired, runVars, mockVars, scoreVars,
                   diffVars, traceVars, unitVars>>

NextDeadline == CaseBegin \/ DeadlineTurn \/ DeadlineResolve \/ Expire \/ CaseEnd

SpecDeadline == InitCase /\ [][NextDeadline]_vars

-----------------------------------------------------------------------------
(* pkg/runner: New and Run *)

\* New: a concurrency below 1 is coerced to 1.
NewConcurrency(c) == IF c < 1 THEN 1 ELSE c

\* Mutation: the gate admits one case more than its capacity.
SemCanSend_OffByOne(tokens, capacity) == tokens <= capacity

\* Mutation: the gate keeps one of its slots closed.
SemCanSend_OneShort(tokens, capacity) == tokens < capacity - 1

\* sem <- struct{}{} proceeds while the channel buffer has room.
SemCanSend(tokens, capacity) == tokens < capacity

\* Mutation: the result goes to the slot of the completion count.
StoreSlot_ByCompletion(cases, idx, done, r) == [cases EXCEPT ![done + 1] = r]

\* result.Cases[idx] = cr (idx is 0-based in the code, 1-based here).
StoreSlot(cases, idx, done, r) == [cases EXCEPT ![idx] = r]

\* Mutation: Run fails with the error of the first failed case.
RunError_FirstCaseError(cases) ==
    IF \E i \in 1..Len(cases) : cases[i].Error # EmptyStr
    THEN cases[CHOOSE i \in 1..Len(cases) :
                  /\ cases[i].Error # EmptyStr
                  /\ \A j \in 1..(i - 1) : cases[j].Error = EmptyStr].Error
    ELSE Nil

\* Mutation: Run fails when a case was cancelled.
RunError_OnCancellation(cases) ==
    IF \E i \in 1..Len(cases) :
          cases[i].Error \in {<<"provider error: ">> \o RespCtxErr.err,
                              <<"provider error: ">> \o RespCanceled.err}
    THEN <<"run cancelled">>
    ELSE Nil

\* The error Run returns.
RunError(cases) == Nil

\* Mutation: the callback gets the completion count itself.
ProgressIndex_Count(count) == count

\* The first argument of the progress callback: current-1.
ProgressIndex(count) == count - 1

ZeroCaseResult == Frame0.cr

\* What the provider does in the conversations of a run.
RunScripts ==
    { [prefix |-> <<>>,          tail |-> RespFinal],
      [prefix |-> <<RespTool2>>, tail |-> RespFinal],
      [prefix |-> <<>>,          tail |-> RespError],
      [prefix |-> <<RespTool1>>, tail |-> RespCtxErr],
      [prefix |-> <<>>,          tail |-> RespCanceled],
      [prefix |-> <<>>,          tail |-> RespTool1] }

Cases == 1..NumCases

Init ==
    /\ configured \in -1..MaxConcurrency
    /\ cfgConcurrency = NewConcurrency(configured)
    /\ suite \in {[i \in Cases |-> EvalCase(i, in[i])] :
                     in \in [Cases -> {GoodInput, BadInput}]}
    /\ hasProgress \in BOOLEAN
    /\ mainPc = "spawn"
    /\ spawned = 0
    /\ wg = 0
    /\ sem = 0
    /\ completed = 0
    /\ resultCases = [i \in Cases |-> ZeroCaseResult]
    /\ gpc = [i \in Cases |-> "none"]
    /\ cr = [i \in Cases |-> ZeroCaseResult]
    /\ current = [i \in Cases |-> 0]
    /\ provided = [i \in Cases |-> <<>>]
    /\ progressCalls = <<>>
    /\ runRet = Nil
    /\ IdleCase /\ IdleMock /\ IdleScore /\ IdleDiff /\ IdleTrace
    /\ IdleUnits

\* One iteration of Run's for loop: wg.Add(1) and the go statement.
Spawn ==
    /\ mainPc = "spawn"
    /\ spawned < Len(suite)
    /\ wg' = wg + 1
    /\ spawned' = spawned + 1
    /\ gpc' = [gpc EXCEPT ![spawned + 1] = "acquire"]
    /\ mainPc' = IF spawned + 1 < Len(suite) THEN "spawn" ELSE "wait"
    /\ UNCHANGED <<configured, cfgConcurrency, suite, hasProgress, sem,
                   completed, resultCases, cr, current, provided,
                   progressCalls, runRet, caseVars, mockVars, scoreVars,
                   diffVars, traceVars, unitVars>>

\* sem <- struct{}{}
Acquire(i) ==
    /\ gpc[i] = "acquire"
    /\ SemCanSend(sem, cfgConcurrency)
    /\ sem' = sem + 1
    /\ gpc' = [gpc EXCEPT ![i] = "run"]
    /\ UNCHANGED <<configured, cfgConcurrency, suite, hasProgress, mainPc,
                   spawned, wg, completed, resultCases, cr, current, provided,
                   progressCalls, runRet, caseVars, mockVars, scoreVars,
                   diffVars, traceVars, unitVars>>

\* cr := r.runCase(ctx, ec, pv, p).  runCase touches only its own frame, so
\* its steps are taken together; the provider's answers are its input.
RunCase(i) ==
    /\ gpc[i] = "run"
    /\ \E s \in RunScripts :
          LET f == runCase(suite[i], PromptVariant, s)
          IN /\ cr' = [cr EXCEPT ![i] = f.cr]
             /\ provided' = [provided EXCEPT
                                ![i] = IF f.calls = 0 THEN <<>> ELSE <<s>>]
    /\ gpc' = [gpc EXCEPT ![i] = "store"]
    /\ UNCHANGED <<configured, cfgConcurrency, suite, hasProgress, mainPc,
                   spawned, wg, sem, completed, resultCases, current,
                   progressCalls, runRet, caseVars, mockVars, scoreVars,
                   diffVars, traceVars, unitVars>>

\* The section under mu: store the result, count the completion.
StoreResult(i) ==
    /\ gpc[i] = "store"
    /\ resultCases' = StoreSlot(resultCases, i, completed, cr[i])
    /\ completed' = completed + 1
    /\ current' = [current EXCEPT ![i] = completed + 1]
    /\ gpc' = [gpc EXCEPT ![i] = "progress"]
    /\ UNCHANGED <<configured, cfgConcurrency, suite, hasProgress, mainPc,
                   spawned, wg, sem, cr, provided, progressCalls, runRet,
                   caseVars, mockVars, scoreVars,
                   diffVars, traceVars, unitVars>>

\* Mutation: the callback is skipped for a case that ended with an error.
Progress_SkipsErrored(i) ==
    /\ gpc[i] = "progress"
    /\ progressCalls' =
          IF hasProgress /\ cr[i].Error = EmptyStr
          THEN Append(progressCalls,
                      [index |-> ProgressIndex(current[i]), total |-> Len(suite),
                       caseName |-> suite[i].Name, err |-> cr[i].Error])
          ELSE progressCalls
    /\ gpc' = [gpc EXCEPT ![i] = "exit"]
    /\ UNCHANGED <<configured, cfgConcurrency, suite, hasProgress, mainPc,
                   spawned, wg, sem, completed, resultCases, cr, current,
                   provided, runRet, caseVars, mockVars, scoreVars,
                   diffVars, traceVars, unitVars>>

\* if progress != nil { progress(current-1, len(s.Cases), ec.Name, ..., caseErr) }
Progress(i) ==
    /\ gpc[i] = "progress"
    /\ progressCalls' =
          IF hasProgress
          THEN Append(progressCalls,
                      [index |-> ProgressIndex(current[i]), total |-> Len(suite),
                       caseName |-> suite[i].Name, err |-> cr[i].Error])
          ELSE progressCalls
    /\ gpc' = [gpc EXCEPT ![i] = "exit"]
    /\ UNCHANGED <<configured, cfgConcurrency, suite, hasProgress, mainPc,
                   spawned, wg, sem, completed, resultCases, cr, current,
                   provided, runRet, caseVars, mockVars, scoreVars,
                   diffVars, traceVars, unitVars>>

\* The deferred calls, last first: <-sem, then wg.Done().
Exit(i) ==
    /\ gpc[i] = "exit"
    /\ sem' = sem - 1
    /\ wg' = wg - 1
    /\ gpc' = [gpc EXCEPT ![i] = "done"]
    /\ UNCHANGED <<configured, cfgConcurrency, suite, hasProgress, mainPc,
                   spawned, completed, resultCases, cr, current, provided,
                   progressCalls, runRet, caseVars, mockVars, scoreVars,
                   diffVars, traceVars, unitVars>>

\* wg.Wait() returns; Run returns result, nil.
RunReturn ==
    /\ mainPc = "wait"
    /\ wg = 0
    /\ mainPc' = "returned"
    /\ runRet' = RunError(resultCases)
    /\ UNCHANGED <<configured, cfgConcurrency, suite, hasProgress, spawned, wg,
                   sem, completed, resultCases, gpc, cr, current, provided,
                   progressCalls, caseVars, mockVars, scoreVars,
                   diffVars, traceVars, unitVars>>

Next ==
    \/ Spawn
    \/ \E i \in Cases : Acquire(i)
    \/ \E i \in Cases : RunCase(i)
    \/ \E i \in Cases : StoreResult(i)
    \/ \E i \in Cases : Progress(i)
    \/ \E i \in Cases : Exit(i)
    \/ RunReturn

Spec == Init /\ [][Next]_vars

\* The steps of the goroutine of case i outside runCase.
Goroutine(i) == Acquire(i) \/ StoreResult(i) \/ Progress(i) \/ Exit(i)

\* runCase returns: the goroutine of case i does not stay in it for ever.
\* RunCase(i) is possible exactly while gpc[i] = "run" and every RunCase(i)
\* step leaves that position, so this is weak fairness of RunCase(i).
CaseReturns(i) == []<>(gpc[i] # "run")

\* Run under a fair scheduler: the caller of Run and every goroutine it
\* started take a step that stays possible (the progress callback returns),
\* and every runCase returns.
FairSpec ==
    /\ Spec
    /\ WF_vars(Spawn)
    /\ WF_vars(RunReturn)
    /\ \A i \in Cases : WF_vars(Goroutine(i))
    /\ \A i \in Cases : CaseReturns(i)

-----------------------------------------------------------------------------
(* SpecMock: one MockRegistry shared by concurrent callers of Resolve *)

Callers == 1..NumCallers

\* The tools the callers ask for; "unknown_tool" starts without a config.
MockTools == {"search", "unknown_tool"}

RespFirst  == MockResponse(<<"first">>, EmptyStr, 0)
RespSecond == MockResponse(<<"second">>, EmptyStr, 1)
RespDenied == MockResponse(EmptyStr, <<"permission denied">>, 0)
RespDefault == MockResponse(<<"default hit">>, EmptyStr, 0)
RespThird  == MockResponse(<<"third">>, EmptyStr, 0)

ResponsePool == {RespFirst, RespSecond, RespDenied}
DefaultPool  == {Nil, <<RespDefault>>, <<RespDenied>>}

\* The configs a registry is built from.
MockSetups ==
    { <<MockConfig("search", rs, dflt)>> :
         rs \in SeqsUpTo(ResponsePool, MaxResponses), dflt \in DefaultPool }

\* The configs given to Register after construction.
RegisterConfigs ==
    { MockConfig("search", <<RespSecond, RespThird>>, <<RespDefault>>),
      MockConfig("search", <<RespThird>>, Nil),
      MockConfig("unknown_tool", <<>>, <<RespDefault>>) }

ZeroLocals ==
    [toolName |-> "", params |-> "", content |-> EmptyStr, errMsg |-> EmptyStr,
     delay |-> 0, slot |-> 0]

InitMock ==
    /\ reg \in {NewRegistry(cfgs) : cfgs \in MockSetups}
    /\ cpc = [p \in Callers |-> "idle"]
    /\ clocal = [p \in Callers |-> ZeroLocals]
    /\ served = <<>>
    /\ reRegistered = {}
    /\ IdleCase /\ IdleRun /\ IdleScore /\ IdleDiff /\ IdleTrace
    /\ IdleUnits

\* Resolve up to the end of its first critical section.  A call that returns
\* from inside the section is complete; the others go on to sleep and record.
ResolveBegin(p, toolName) ==
    /\ cpc[p] = "idle"
    /\ Len(served) < MaxCalls
    /\ LET s == ResolveSelect(reg, toolName)
       IN /\ reg' = s.reg
          /\ IF s.early
             THEN /\ served' = Append(served, [ToolName |-> toolName, done |-> TRUE,
                                               content |-> EmptyStr, err |-> s.err])
                  /\ UNCHANGED <<cpc, clocal, unitVars>>
             ELSE /\ served' = Append(served, [ToolName |-> toolName, done |-> FALSE,
                                               content |-> EmptyStr, err |-> Nil])
                  /\ cpc' = [cpc EXCEPT ![p] = "selected"]
                  /\ clocal' = [clocal EXCEPT ![p] =
                                   [toolName |-> toolName, params |-> "p",
                                    content |-> s.content, errMsg |-> s.errMsg,
                                    delay |-> s.delay, slot |-> Len(served) + 1]]
    /\ UNCHANGED <<reRegistered, caseVars, runVars, scoreVars, diffVars, traceVars, unitVars>>

\* Resolve after the sleep: the second critical section and the return.
ResolveEnd(p) ==
    /\ cpc[p] = "selected"
    /\ LET l == clocal[p]
           ret == ResolveReturn(l.toolName, l.content, l.errMsg)
       IN /\ reg' = ResolveRecord(reg, l.toolName, l.params, l.content, l.errMsg)
          /\ served' = [served EXCEPT ![l.slot] =
                           [ToolName |-> l.toolName, done |-> TRUE,
                            content |-> ret.content, err |-> ret.err]]
    /\ cpc' = [cpc EXCEPT ![p] = "idle"]
    /\ clocal' = [clocal EXCEPT ![p] = ZeroLocals]
    /\ UNCHANGED <<reRegistered, caseVars, runVars, scoreVars, diffVars, traceVars, unitVars>>

\* Register(config), once per tool name.
Register(config) ==
    /\ config.ToolName \notin reRegistered
    /\ reg' = RegisterConfig(reg, config)
    /\ reRegistered' = reRegistered \cup {config.ToolName}
    /\ UNCHANGED <<cpc, clocal, served, caseVars, runVars, scoreVars, diffVars,
                   traceVars, unitVars>>

NextMock ==
    \/ \E p \in Callers, t \in MockTools : ResolveBegin(p, t)
    \/ \E p \in Callers : ResolveEnd(p)
    \/ \E config \in RegisterConfigs : Register(config)

SpecMock == InitMock /\ [][NextMock]_vars

-----------------------------------------------------------------------------
(* pkg/judge: CompositeScorer.  A float64 is modelled as an exact rational *)
(* with a positive denominator; rounding is left out.                      *)

Rat(n, d) == [num |-> n, den |-> d]

RatAdd(a, b) == Rat(a.num * b.den + b.num * a.den, a.den * b.den)
RatMul(a, b) == Rat(a.num * b.num, a.den * b.den)
RatDiv(a, b) == IF b.num > 0 THEN Rat(a.num * b.den, a.den * b.num)
                ELSE Rat(-(a.num * b.den), -(a.den * b.num))
RatEq(a, b)  == a.num * b.den = b.num * a.den
RatGE(a, b)  == a.num * b.den >= b.num * a.den
RatGT(a, b)  == a.num * b.den > b.num * a.den

Zero == Rat(0, 1)
One  == Rat(1, 1)

\* NewCompositeScorer: a threshold of 0 becomes 0.5.
NewCompositeScorer(threshold) ==
    [Threshold |-> IF RatEq(threshold, Zero) THEN Rat(1, 2) ELSE threshold]

\* Mutation: a configured weight of zero is used as it is.
EffectiveWeight_NoDefault(w) == w

\* w := cfg.Weight; if w == 0 { w = 1.0 }
EffectiveWeight(w) == IF RatEq(w, Zero) THEN One ELSE w

\* A judge's Evaluate: what it returns for the scored input.
Verdict(err, pass, score, reason) ==
    [err |-> err, Pass |-> pass, Score |-> score, Reason |-> reason]

\* HumanReviewJudge{Reason: reason}.Evaluate: never passes, score 0, and the
\* configured reason, "review" when none is configured.
HumanReviewJudge(reason) ==
    Verdict(Nil, FALSE, Zero, IF reason = EmptyStr THEN <<"review">> ELSE reason)

JudgeConfig(name, weight, verdict) ==
    [Name |-> name, Weight |-> weight, Judge |-> verdict]

ScoreFrame0 ==
    [pc |-> "loop", i |-> 1, scores |-> <<>>, totalWeight |-> Zero,
     weightedSum |-> Zero, hasReview |-> FALSE, hasError |-> FALSE,
     reasons |-> <<>>,
     result |-> [Status |-> "", CompositeScore |-> Zero, Pass |-> FALSE,
                 Scores |-> <<>>, Reason |-> <<>>]]

\* The body of Score's loop for one judge config.
ScoreJudgeStep(f, cfg) ==
    LET w == EffectiveWeight(cfg.Weight)
        result == cfg.Judge
        js0 == [JudgeName |-> cfg.Name, Weight |-> w, Pass |-> FALSE,
                Score |-> Zero, Reason |-> EmptyStr, Status |-> ""]
    IN IF result.err # Nil
       THEN [f EXCEPT
               !.hasError = TRUE,
               !.reasons = Append(@, <<cfg.Name, ": error: ", result.err>>),
               !.scores = Append(@, [js0 EXCEPT !.Status = "error",
                                                !.Reason = result.err]),
               !.i = @ + 1]
       ELSE LET status == IF result.Reason = <<"review">> THEN "review"
                          ELSE IF result.Pass THEN "pass" ELSE "fail"
            IN [f EXCEPT
                  !.hasReview = @ \/ result.Reason = <<"review">>,
                  !.weightedSum = RatAdd(@, RatMul(result.Score, w)),
                  !.totalWeight = RatAdd(@, w),
                  !.reasons = Append(@, <<cfg.Name, ": ", result.Reason,
                                          " (score=", result.Score, ")">>),
                  !.scores = Append(@, [js0 EXCEPT !.Pass = result.Pass,
                                                   !.Score = result.Score,
                                                   !.Reason = result.Reason,
                                                   !.Status = status]),
                  !.i = @ + 1]

\* Mutation: an errored judge sets the status but leaves the verdict alone.
Verdict_ErrorKeepsPass(hasError, hasReview, pass) ==
    IF hasError THEN [Status |-> "error", Pass |-> pass]
    ELSE IF hasReview THEN [Status |-> "review", Pass |-> FALSE]
    ELSE IF pass THEN [Status |-> "pass", Pass |-> TRUE]
    ELSE [Status |-> "fail", Pass |-> FALSE]

\* Mutation: status review is decided before status error.
Verdict_ReviewOverError(hasError, hasReview, pass) ==
    IF hasReview THEN [Status |-> "review", Pass |-> FALSE]
    ELSE IF hasError THEN [Status |-> "error", Pass |-> FALSE]
    ELSE IF pass THEN [Status |-> "pass", Pass |-> TRUE]
    ELSE [Status |-> "fail", Pass |-> FALSE]

\* Status and verdict from the flags and the threshold test.
FinalVerdict(hasError, hasReview, pass) ==
    IF hasError THEN [Status |-> "error", Pass |-> FALSE]
    ELSE IF hasReview THEN [Status |-> "review", Pass |-> FALSE]
    ELSE IF pass THEN [Status |-> "pass", Pass |-> TRUE]
    ELSE [Status |-> "fail", Pass |-> FALSE]

\* Mutation: a composite equal to the threshold does not pass.
ThresholdTest_Strict(composite, threshold) == RatGT(composite, threshold)

\* pass := composite >= cs.Threshold
ThresholdTest(composite, threshold) == RatGE(composite, threshold)

\* Score after its loop: composite, threshold test, status, result.
ScoreResult(scorer, f) ==
    LET composite == IF RatGT(f.totalWeight, Zero)
                     THEN RatDiv(f.weightedSum, f.totalWeight)
                     ELSE Zero
        pass == ThresholdTest(composite, scorer.Threshold)
        v == FinalVerdict(f.hasError, f.hasReview, pass)
    IN [f EXCEPT !.pc = "done",
                 !.result = [Status |-> v.Status, CompositeScore |-> composite,
                             Pass |-> v.Pass, Scores |-> f.scores,
                             Reason |-> f.reasons]]

-----------------------------------------------------------------------------
(* SpecScore: one call of Score, one action per judge *)

Weights     == {Rat(-1, 1), Zero, One, Rat(3, 1)}
Thresholds  == {Rat(-1, 2), Zero, Rat(3, 4), One}

\* The reasons a HumanReviewJudge is configured with.
ReviewReasons == {EmptyStr, <<"needs expert">>}

\* An errored judge, judges flagged for review, HumanReviewJudges, and judges
\* with their own pass/fail verdict on a score.
Verdicts ==
    {Verdict(<<"judge failed">>, FALSE, Zero, EmptyStr)}
    \cup {HumanReviewJudge(r) : r \in ReviewReasons}
    \cup {Verdict(Nil, FALSE, x, <<"review">>) : x \in {Zero, One}}
    \cup {Verdict(Nil, TRUE, x, <<"ok">>) : x \in {Rat(1, 2), One}}
    \cup {Verdict(Nil, FALSE, x, <<"nope">>) : x \in {Zero, Rat(1, 2)}}

JudgeNames == [k \in 1..(MaxJudges + 1) |-> <<"judge-", ToString(k)>>]

JudgeLists ==
    UNION { {[k \in 1..n |-> JudgeConfig(JudgeNames[k], ws[k], vs[k])] :
                ws \in [1..n -> Weights], vs \in [1..n -> Verdicts]} :
            n \in 0..MaxJudges }

InitScore ==
    /\ cs \in {NewCompositeScorer(t) : t \in Thresholds}
    /\ configs \in JudgeLists
    /\ sc = ScoreFrame0
    /\ IdleCase /\ IdleRun /\ IdleMock /\ IdleDiff /\ IdleTrace
    /\ IdleUnits

\* One iteration of for _, cfg := range configs.
ScoreJudge ==
    /\ sc.pc = "loop"
    /\ sc.i <= Len(configs)
    /\ sc' = ScoreJudgeStep(sc, configs[sc.i])
    /\ UNCHANGED <<cs, configs, caseVars, runVars, mockVars, diffVars, traceVars, unitVars>>

\* The loop is over: compute the composite and return.
ScoreFinish ==
    /\ sc.pc = "loop"
    /\ sc.i > Len(configs)
    /\ sc' = ScoreResult(cs, sc)
    /\ UNCHANGED <<cs, configs, caseVars, runVars, mockVars, diffVars, traceVars, unitVars>>

NextScore == ScoreJudge \/ ScoreFinish

SpecScore == InitScore /\ [][NextScore]_vars

-----------------------------------------------------------------------------
(* pkg/diff: Compare.  Scores, deltas and the threshold are float64,       *)
(* modelled as exact rationals like the judge scores.                      *)

RatSub(a, b) == Rat(a.num * b.den - b.num * a.den, a.den * b.den)
RatNeg(a)    == Rat(-a.num, a.den)
RatAbs(a)    == IF a.num < 0 THEN RatNeg(a) ELSE a
RatLE(a, b)  == RatGE(b, a)

Categories == {"improved", "regressed", "unchanged", "new", "removed"}

\* result.CaseResult, the fields Compare reads.
ResultCase(name, score) ==
    [CaseName |-> name, Score |-> score, Pass |-> RatGE(score, Rat(1, 2)),
     Error |-> EmptyStr]

statusStr(r) ==
    IF r.Error # EmptyStr THEN "error" ELSE IF r.Pass THEN "pass" ELSE "fail"

CaseDiff(name, category, scoreA, scoreB, delta, statusA, statusB) ==
    [CaseName |-> name, Category |-> category, ScoreA |-> scoreA,
     ScoreB |-> scoreB, ScoreDelta |-> delta, StatusA |-> statusA,
     StatusB |-> statusB]

\* for _, cr := range results { m[cr.CaseName] = cr }: the last one wins.
IndexByName(results) ==
    LET names == {results[i].CaseName : i \in 1..Len(results)}
        last(n) == CHOOSE i \in 1..Len(results) :
                      /\ results[i].CaseName = n
                      /\ \A j \in 1..Len(results) :
                            results[j].CaseName = n => j <= i
    IN [n \in names |-> results[last(n)]]

\* Mutation: a delta exactly at the threshold is no longer unchanged.
Classify_Strict(delta, t) ==
    IF RatGT(t, RatAbs(delta)) THEN "unchanged"
    ELSE IF RatGT(delta, Zero) THEN "improved"
    ELSE "regressed"

\* The category of a case found in both runs.
Classify(delta, t) ==
    IF RatLE(RatAbs(delta), t) THEN "unchanged"
    ELSE IF RatGT(delta, Zero) THEN "improved"
    ELSE "regressed"

ZeroSummary == [c \in Categories |-> 0]

\* Mutation: removed cases are listed but not counted.
Count_SkipRemoved(summary, category) ==
    IF category = "removed" THEN summary
    ELSE [summary EXCEPT ![category] = @ + 1]

\* dr.Summary.<Category>++
Count(summary, category) == [summary EXCEPT ![category] = @ + 1]

DiffFrame0 ==
    [pc |-> "index", i |-> 1, aMap |-> <<>>, bMap |-> <<>>, seen |-> {},
     Cases |-> <<>>, Summary |-> ZeroSummary,
     categories |-> <<>>, filtered |-> Nil]

\* The two index loops.
CompareIndexMaps(f, a, b) ==
    [f EXCEPT !.aMap = IndexByName(a), !.bMap = IndexByName(b),
              !.pc = IF Len(b) > 0 THEN "loopB" ELSE "loopA"]

\* The body of the loop over b.Results for its i-th element.
CompareCaseB(f, b, t) ==
    LET crB == b[f.i]
        inA == crB.CaseName \in DOMAIN f.aMap
        cd == IF ~inA
              THEN CaseDiff(crB.CaseName, "new", Zero, crB.Score, Zero,
                            "", statusStr(crB))
              ELSE LET crA == f.aMap[crB.CaseName]
                       delta == RatSub(crB.Score, crA.Score)
                   IN CaseDiff(crB.CaseName, Classify(delta, t), crA.Score,
                               crB.Score, delta, statusStr(crA), statusStr(crB))
    IN [f EXCEPT !.seen = @ \cup {crB.CaseName},
                 !.Cases = Append(@, cd),
                 !.Summary = Count(@, cd.Category),
                 !.i = IF f.i < Len(b) THEN f.i + 1 ELSE 1,
                 !.pc = IF f.i < Len(b) THEN "loopB" ELSE "loopA"]

\* The body of the loop over a.Results for its i-th element.
CompareCaseA(f, a) ==
    LET crA == a[f.i]
    IN IF crA.CaseName \notin f.seen
       THEN [f EXCEPT !.Cases = Append(@, CaseDiff(crA.CaseName, "removed",
                                         crA.Score, Zero, Zero,
                                         statusStr(crA), "")),
                      !.Summary = Count(@, "removed"),
                      !.i = @ + 1]
       ELSE [f EXCEPT !.i = @ + 1]

\* Compare as one call: the frame at its return.
RECURSIVE CompareFrom(_, _, _, _)
CompareFrom(f, a, b, t) ==
    IF f.pc = "index" THEN CompareFrom(CompareIndexMaps(f, a, b), a, b, t)
    ELSE IF f.pc = "loopB" THEN CompareFrom(CompareCaseB(f, b, t), a, b, t)
    ELSE IF f.pc = "loopA" /\ f.i <= Len(a)
    THEN CompareFrom(CompareCaseA(f, a), a, b, t)
    ELSE [f EXCEPT !.pc = "returned"]

Compare(a, b, t) == CompareFrom(DiffFrame0, a, b, t)

\* The loop of Filter over dr.Cases from position i on: a diff whose category
\* is in catSet is appended to the new slice.
RECURSIVE FilterCases(_, _, _, _)
FilterCases(cases, catSet, i, acc) ==
    IF i > Len(cases) THEN acc
    ELSE FilterCases(cases, catSet, i + 1,
                     IF cases[i].Category \in catSet
                     THEN Append(acc, cases[i]) ELSE acc)

\* Mutation: Filter returns its receiver whatever the categories.
Filter_KeepAll(dr, categories) == dr

\* Filter: the receiver itself for an empty list, else a new DiffResult with
\* the matching diffs and the receiver's summary.
Filter(dr, categories) ==
    IF Len(categories) = 0 THEN dr
    ELSE [Cases |-> FilterCases(dr.Cases,
                                {categories[k] : k \in 1..Len(categories)},
                                1, <<>>),
          Summary |-> dr.Summary]

-----------------------------------------------------------------------------
(* SpecDiff: one call of Compare, one action per loop iteration, and one call
   of Filter on its result *)

\* The category lists Filter is called with.
FilterLists ==
    { <<>>, <<"improved", "regressed">>, <<"new">>, <<"removed", "removed">>,
      <<"unchanged", "new", "removed">> }

NamesA == {"stable", "removed-case"}
NamesB == {"stable", "new-case"}
DiffScores == {Rat(2, 5), Rat(9, 10)}
DiffThresholds == {Rat(-1, 2), Zero, Rat(1, 2)}

RunsOver(names) ==
    SeqsUpTo({ResultCase(n, x) : n \in names, x \in DiffScores}, MaxRunLen)

InitDiff ==
    /\ runA \in RunsOver(NamesA)
    /\ runB \in RunsOver(NamesB)
    /\ diffThreshold \in DiffThresholds
    /\ df = DiffFrame0
    /\ IdleCase /\ IdleRun /\ IdleMock /\ IdleScore /\ IdleTrace
    /\ IdleUnits

\* Lines 56-71: the result header and the two name indexes.
CompareIndex ==
    /\ df.pc = "index"
    /\ df' = CompareIndexMaps(df, runA, runB)
    /\ UNCHANGED <<runA, runB, diffThreshold, caseVars, runVars, mockVars,
                   scoreVars, traceVars, unitVars>>

\* One iteration of for _, crB := range b.Results.
CompareB ==
    /\ df.pc = "loopB"
    /\ df' = CompareCaseB(df, runB, diffThreshold)
    /\ UNCHANGED <<runA, runB, diffThreshold, caseVars, runVars, mockVars,
                   scoreVars, traceVars, unitVars>>

\* One iteration of for _, crA := range a.Results.
CompareA ==
    /\ df.pc = "loopA"
    /\ df.i <= Len(runA)
    /\ df' = CompareCaseA(df, runA)
    /\ UNCHANGED <<runA, runB, diffThreshold, caseVars, runVars, mockVars,
                   scoreVars, traceVars, unitVars>>

\* return dr
CompareReturn ==
    /\ df.pc = "loopA"
    /\ df.i > Len(runA)
    /\ df' = [df EXCEPT !.pc = "returned"]
    /\ UNCHANGED <<runA, runB, diffThreshold, caseVars, runVars, mockVars,
                   scoreVars, traceVars, unitVars>>

\* dr.Filter(categories) on the result Compare returned.
FilterResult ==
    /\ df.pc = "returned"
    /\ \E categories \in FilterLists :
          df' = [df EXCEPT !.pc = "filtered",
                           !.categories = categories,
                           !.filtered = <<Filter([Cases |-> df.Cases,
                                                  Summary |-> df.Summary],
                                                 categories)>>]
    /\ UNCHANGED <<runA, runB, diffThreshold, caseVars, runVars, mockVars,
                   scoreVars, traceVars, unitVars>>

NextDiff == CompareIndex \/ CompareB \/ CompareA \/ CompareReturn \/ FilterResult

SpecDiff == InitDiff /\ [][NextDiff]_vars

-----------------------------------------------------------------------------
(* SpecTrace: one AgentTrace shared by concurrent callers.  A method is    *)
(* Lock, a read of the field it works on, the write, Unlock.               *)

TraceCallers == 1..NumTraceCallers

UsageAmounts == {Usage(100, 50), Usage(200, 80)}

Mutators  == {"AddMessage", "AddToolCall", "AddUsage"}
Accessors == {"GetMessages", "GetToolCalls", "GetUsage"}

ZeroTraceLocals ==
    [op |-> "", amount |-> Usage(0, 0), t |-> NewTrace, addr |-> 0,
     gotMessages |-> <<>>, gotToolCalls |-> <<>>, gotUsage |-> NewTrace.Usage]

InitTrace ==
    /\ trace = NewTrace
    /\ heap = <<>>
    /\ mu = 0
    /\ tpc = [p \in TraceCallers |-> "idle"]
    /\ tlocal = [p \in TraceCallers |-> ZeroTraceLocals]
    /\ tlog = [started |-> 0, messages |-> 0, toolCalls |-> 0, usage |-> <<>>,
               writers |-> {}]
    /\ IdleCase /\ IdleRun /\ IdleMock /\ IdleScore /\ IdleDiff
    /\ IdleUnits

\* A caller enters a method: t.mu.Lock(), then the method reads the trace.
\* A caller of AddToolCall has built the record, with a map of its own.
TraceEnter(p, op, amount) ==
    /\ tpc[p] = "idle"
    /\ tlog.started < MaxTraceOps
    /\ MutexFree(mu)
    /\ mu' = p
    /\ tpc' = [tpc EXCEPT ![p] = "locked"]
    /\ heap' = IF op = "AddToolCall" THEN Append(heap, "original") ELSE heap
    /\ tlocal' = [tlocal EXCEPT ![p].op = op, ![p].amount = amount,
                                ![p].t = trace, ![p].addr = Len(heap')]
    /\ tlog' = [tlog EXCEPT !.started = @ + 1]
    /\ UNCHANGED <<trace, caseVars, runVars, mockVars, scoreVars, diffVars, unitVars>>

\* The method writes the field it works on, or returns its copy, and the
\* deferred t.mu.Unlock() runs.
TraceLeave(p) ==
    /\ tpc[p] = "locked"
    /\ LET l == tlocal[p]
       IN /\ trace' =
                CASE l.op = "AddMessage" ->
                        [trace EXCEPT !.Messages =
                            AddMessage(l.t, "user", <<"original">>).Messages]
                  [] l.op = "AddToolCall" ->
                        [trace EXCEPT !.ToolCalls =
                            AddToolCall(l.t, ToolCallTrace("original", l.addr)).ToolCalls]
                  [] l.op = "AddUsage" ->
                        [trace EXCEPT !.Usage =
                            AddUsage(l.t, l.amount.InputTokens,
                                     l.amount.OutputTokens).Usage]
                  [] OTHER -> trace
          /\ tlocal' =
                CASE l.op = "GetMessages" ->
                        [tlocal EXCEPT ![p].gotMessages = GetMessages(l.t)]
                  [] l.op = "GetToolCalls" ->
                        [tlocal EXCEPT ![p].gotToolCalls = GetToolCalls(l.t)]
                  [] l.op = "GetUsage" ->
                        [tlocal EXCEPT ![p].gotUsage = GetUsage(l.t)]
                  [] OTHER -> tlocal
          /\ tlog' =
                CASE l.op = "AddMessage" ->
                        [tlog EXCEPT !.messages = @ + 1, !.writers = @ \cup {p}]
                  [] l.op = "AddToolCall" ->
                        [tlog EXCEPT !.toolCalls = @ + 1, !.writers = @ \cup {p}]
                  [] l.op = "AddUsage" ->
                        [tlog EXCEPT !.usage = Append(@, l.amount),
                                     !.writers = @ \cup {p}]
                  [] OTHER -> tlog
    /\ mu' = 0
    /\ tpc' = [tpc EXCEPT ![p] = "idle"]
    /\ UNCHANGED <<heap, caseVars, runVars, mockVars, scoreVars, diffVars, unitVars>>

\* The caller writes to a message it was handed: msgs[0].Content = "modified".
MutateMessage(p) ==
    /\ tpc[p] = "idle"
    /\ Len(tlocal[p].gotMessages) > 0
    /\ tlocal[p].gotMessages[1].Content # <<"modified">>
    /\ tlocal' = [tlocal EXCEPT ![p].gotMessages[1].Content = <<"modified">>]
    /\ UNCHANGED <<trace, heap, mu, tpc, tlog, caseVars, runVars, mockVars,
                   scoreVars, diffVars, unitVars>>

\* The caller writes to a record it was handed: calls[0].ToolName = "modified".
MutateToolCall(p) ==
    /\ tpc[p] = "idle"
    /\ Len(tlocal[p].gotToolCalls) > 0
    /\ tlocal[p].gotToolCalls[1].ToolName # "modified"
    /\ tlocal' = [tlocal EXCEPT ![p].gotToolCalls[1].ToolName = "modified"]
    /\ UNCHANGED <<trace, heap, mu, tpc, tlog, caseVars, runVars, mockVars,
                   scoreVars, diffVars, unitVars>>

\* The caller writes to the parameter map of a record it was handed:
\* calls[0].Parameters["key"] = "changed".
MutateParameters(p) ==
    /\ tpc[p] = "idle"
    /\ Len(tlocal[p].gotToolCalls) > 0
    /\ heap[tlocal[p].gotToolCalls[1].Parameters] # "changed"
    /\ heap' = [heap EXCEPT ![tlocal[p].gotToolCalls[1].Parameters] = "changed"]
    /\ UNCHANGED <<trace, mu, tpc, tlocal, tlog, caseVars, runVars, mockVars,
                   scoreVars, diffVars, unitVars>>

NextTrace ==
    \/ \E p \in TraceCallers, op \in (Mutators \cup Accessors) \ {"AddUsage"} :
          TraceEnter(p, op, Usage(0, 0))
    \/ \E p \in TraceCallers, amount \in UsageAmounts :
          TraceEnter(p, "AddUsage", amount)
    \/ \E p \in TraceCallers : TraceLeave(p)
    \/ \E p \in TraceCallers : MutateMessage(p)
    \/ \E p \in TraceCallers : MutateToolCall(p)
    \/ \E p \in TraceCallers : MutateParameters(p)

SpecTrace == InitTrace /\ [][NextTrace]_vars

-----------------------------------------------------------------------------
(* pkg/provider: the retry loop of AnthropicProvider.Complete and
   OpenAIProvider.Complete, which are the same code *)

\* What one HTTP attempt (doRequest) comes to: a decodable 200, a status that
\* doRequest wraps in retryableError, a failure of client.Do or of reading the
\* body (wrapped too), another status, a 200 whose body does not decode.
Outcomes == {"ok", "http429", "http500", "transport", "http400", "undecodable"}

\* Mutation: every failed attempt is retried.
isRetryable_AnyError(outcome) == outcome # "ok"

\* isRetryable: the error is a *retryableError.
isRetryable(outcome) == outcome \in {"http429", "http500", "transport"}

\* Mutation: the loop stops one attempt early.
RetryGuard_Strict(attempt, limit) == attempt < limit

\* attempt <= p.maxRetries
RetryGuard(attempt, limit) == attempt <= limit

\* doRequest under ctx: client.Do fails once ctx is done, otherwise the API
\* answers as scripted.
doRequest(done, scripted) == IF done THEN "transport" ELSE scripted

ErrBuildBody == <<"building request body: ">>
ErrContext == <<"context canceled">>
ErrAttempts(limit, lastErr) ==
    <<"API request failed after ", limit + 1, " attempts: ", lastErr>>

RetryFrame0 ==
    [pc |-> "start", attempt |-> 0, seen |-> <<>>, lastErr |-> Nil,
     resp |-> Nil, err |-> Nil]

-----------------------------------------------------------------------------
(* SpecRetry: one call of Complete, one action per HTTP attempt and per wait *)

InitRetry ==
    /\ maxRetries \in -1..MaxRetryLimit
    /\ bodyOK \in BOOLEAN
    /\ outcomes \in [1..(MaxRetryLimit + 1) -> Outcomes]
    /\ ctxDone = FALSE
    /\ pr = RetryFrame0
    /\ IdleCase /\ IdleRun /\ IdleMock /\ IdleScore /\ IdleDiff /\ IdleTrace
    /\ IdleToolJudge /\ IdleReview

\* The caller's context is cancelled or its deadline passes.
Cancel ==
    /\ pr.pc \in {"start", "loop", "request"}
    /\ ~ctxDone
    /\ ctxDone' = TRUE
    /\ UNCHANGED <<maxRetries, bodyOK, outcomes, pr, caseVars, runVars,
                   mockVars, scoreVars, diffVars, traceVars, judgeVars, reviewVars>>

\* buildRequestBody and its error check.
RetryStart ==
    /\ pr.pc = "start"
    /\ pr' = IF bodyOK THEN [pr EXCEPT !.pc = "loop"]
             ELSE [pr EXCEPT !.pc = "returned", !.err = ErrBuildBody]
    /\ UNCHANGED <<maxRetries, bodyOK, outcomes, ctxDone, caseVars, runVars,
                   mockVars, scoreVars, diffVars, traceVars, judgeVars, reviewVars>>

\* The select before a retry takes case <-time.After(backoff).
Backoff ==
    /\ pr.pc = "loop"
    /\ RetryGuard(pr.attempt, maxRetries)
    /\ pr.attempt > 0
    /\ pr' = [pr EXCEPT !.pc = "request"]
    /\ UNCHANGED <<maxRetries, bodyOK, outcomes, ctxDone, caseVars, runVars,
                   mockVars, scoreVars, diffVars, traceVars, judgeVars, reviewVars>>

\* The select before a retry takes case <-ctx.Done(): return nil, ctx.Err().
BackoffCancelled ==
    /\ pr.pc = "loop"
    /\ RetryGuard(pr.attempt, maxRetries)
    /\ pr.attempt > 0
    /\ ctxDone
    /\ pr' = [pr EXCEPT !.pc = "returned", !.err = ErrContext]
    /\ UNCHANGED <<maxRetries, bodyOK, outcomes, ctxDone, caseVars, runVars,
                   mockVars, scoreVars, diffVars, traceVars, judgeVars, reviewVars>>

\* p.doRequest(ctx, body) and what the loop does with its result.
Attempt ==
    /\ \/ pr.pc = "request"
       \/ pr.pc = "loop" /\ RetryGuard(pr.attempt, maxRetries) /\ pr.attempt = 0
    /\ LET o == doRequest(ctxDone, outcomes[pr.attempt + 1])
           f == [pr EXCEPT !.seen = Append(@, o)]
       IN pr' = IF o = "ok"
                THEN [f EXCEPT !.pc = "returned", !.resp = <<o>>]
                ELSE IF ~isRetryable(o)
                THEN [f EXCEPT !.pc = "returned", !.err = <<o>>]
                ELSE [f EXCEPT !.pc = "loop", !.lastErr = <<o>>,
                               !.attempt = @ + 1]
    /\ UNCHANGED <<maxRetries, bodyOK, outcomes, ctxDone, caseVars, runVars,
                   mockVars, scoreVars, diffVars, traceVars, judgeVars, reviewVars>>

\* The loop condition is false: the error after the loop.
Exhausted ==
    /\ pr.pc = "loop"
    /\ ~RetryGuard(pr.attempt, maxRetries)
    /\ pr' = [pr EXCEPT !.pc = "returned",
                        !.err = ErrAttempts(maxRetries, pr.lastErr)]
    /\ UNCHANGED <<maxRetries, bodyOK, outcomes, ctxDone, caseVars, runVars,
                   mockVars, scoreVars, diffVars, traceVars, judgeVars, reviewVars>>

NextRetry ==
    Cancel \/ RetryStart \/ Backoff \/ BackoffCancelled \/ Attempt \/ Exhausted

SpecRetry == InitRetry /\ [][NextRetry]_vars

-----------------------------------------------------------------------------
(* pkg/judge: ToolCallJudge *)

\* A parameter value and what fmt.Sprintf("%v", v) makes of it.
ParamValue(kind, text) == [kind |-> kind, text |-> text]
FormatValue(v) == v.text

ExpectedToolCall(toolName, parameters, negate, matchMode) ==
    [ToolName |-> toolName, Parameters |-> parameters, Negate |-> negate,
     MatchMode |-> matchMode]

\* mapsEqual: same number of keys, every key of a in b with the same rendering.
mapsEqual(a, b) ==
    /\ Cardinality(DOMAIN a) = Cardinality(DOMAIN b)
    /\ \A k \in DOMAIN a :
          k \in DOMAIN b /\ FormatValue(a[k]) = FormatValue(b[k])

\* isSubset: every key of subset in superset with the same rendering.
isSubset(subset, superset) ==
    \A k \in DOMAIN subset :
        k \in DOMAIN superset /\ FormatValue(subset[k]) = FormatValue(superset[k])

\* paramsMatch: no expected parameters match anything; "exact" compares the
\* maps, any other mode is the subset match.
paramsMatch(want, got, mode) ==
    IF Cardinality(DOMAIN want) = 0 THEN TRUE
    ELSE IF mode = "exact" THEN mapsEqual(want, got)
    ELSE isSubset(want, got)

\* The test of the scan loop.
CallMatches(exp, call) ==
    /\ call.ToolName = exp.ToolName
    /\ paramsMatch(exp.Parameters, call.Parameters, exp.MatchMode)

\* Mutation: the call that matched stays available to the next expectation.
AfterMatch_Reuse(callIdx) == callIdx

\* callIdx once a call matched: the scan resumes behind it.
AfterMatch(callIdx) == callIdx + 1

\* The inner loop for one positive expectation: callIdx calls are consumed
\* already, the next ones are read until one matches.
RECURSIVE ScanCalls(_, _, _)
ScanCalls(calls, exp, callIdx) ==
    IF callIdx >= Len(calls) THEN [found |-> FALSE, callIdx |-> callIdx]
    ELSE IF CallMatches(exp, calls[callIdx + 1])
    THEN [found |-> TRUE, callIdx |-> AfterMatch(callIdx)]
    ELSE ScanCalls(calls, exp, callIdx + 1)

ToolJudgeFrame0 ==
    [pc |-> "split", positives |-> <<>>, negatives |-> <<>>, failures |-> <<>>,
     i |-> 1, callIdx |-> 0, result |-> Nil]

\* The first loop: positive and negative assertions apart, each in order.
SplitExpected(f, exps) ==
    LET neg == SelectSeq(exps, LAMBDA e : e.Negate)
    IN [f EXCEPT !.positives = SelectSeq(exps, LAMBDA e : ~e.Negate),
                 !.negatives = neg,
                 !.pc = IF Len(neg) > 0 THEN "negatives" ELSE "positives"]

\* The body of the loop over the negative assertions for its i-th element.
CheckNegative(f, calls) ==
    LET neg == f.negatives[f.i]
        called == \E c \in 1..Len(calls) : calls[c].ToolName = neg.ToolName
    IN [f EXCEPT
          !.failures = IF called
                       THEN Append(@, <<"tool ", neg.ToolName,
                                        " was called but should not have been">>)
                       ELSE @,
          !.i = IF f.i < Len(f.negatives) THEN f.i + 1 ELSE 1,
          !.pc = IF f.i < Len(f.negatives) THEN "negatives" ELSE "positives"]

\* The body of the loop over the positive assertions for its i-th element.
CheckPositive(f, calls) ==
    LET exp == f.positives[f.i]
        scan == ScanCalls(calls, exp, f.callIdx)
    IN [f EXCEPT
          !.callIdx = scan.callIdx,
          !.failures = IF scan.found THEN @
                       ELSE Append(@, <<"expected tool call ", exp.ToolName,
                                        " not found in sequence">>),
          !.i = @ + 1]

\* The Result returned after the loops.
ToolJudgeResult(f) ==
    [f EXCEPT !.pc = "done",
              !.result = IF Len(f.failures) = 0
                         THEN <<Verdict(Nil, TRUE, One,
                                        <<"all tool call assertions passed">>)>>
                         ELSE <<Verdict(Nil, FALSE, Zero, f.failures)>>]

-----------------------------------------------------------------------------
(* SpecToolJudge: one call of Evaluate, one action per assertion *)

JudgedTools == {"read_file", "write_file"}

NoParams == <<>>
WantLine == [k \in {"line"} |-> ParamValue("int", "1")]
GotLine  == [k \in {"line"} |-> ParamValue("int", "1")]
GotLineEncoding ==
    [k \in {"line", "encoding"} |->
        IF k = "line" THEN ParamValue("string", "1")
        ELSE ParamValue("string", "utf-8")]

Expectations ==
    {ExpectedToolCall(t, NoParams, n, "") : t \in JudgedTools, n \in BOOLEAN}
    \cup {ExpectedToolCall(t, WantLine, FALSE, m) :
             t \in JudgedTools, m \in {"", "exact"}}

ActualCalls ==
    {ToolCallTrace(t, ps) : t \in JudgedTools, ps \in {GotLine, GotLineEncoding}}

InitToolJudge ==
    /\ tjExpected \in SeqsUpTo(Expectations, MaxExpected)
    /\ tjActual \in SeqsUpTo(ActualCalls, MaxActual)
    /\ tj = ToolJudgeFrame0
    /\ IdleCase /\ IdleRun /\ IdleMock /\ IdleScore /\ IdleDiff /\ IdleTrace
    /\ IdleRetry /\ IdleReview

JudgeSplit ==
    /\ tj.pc = "split"
    /\ tj' = SplitExpected(tj, tjExpected)
    /\ UNCHANGED <<tjExpected, tjActual, caseVars, runVars, mockVars, scoreVars,
                   diffVars, traceVars, retryVars, reviewVars>>

JudgeNegative ==
    /\ tj.pc = "negatives"
    /\ tj' = CheckNegative(tj, tjActual)
    /\ UNCHANGED <<tjExpected, tjActual, caseVars, runVars, mockVars, scoreVars,
                   diffVars, traceVars, retryVars, reviewVars>>

JudgePositive ==
    /\ tj.pc = "positives"
    /\ tj.i <= Len(tj.positives)
    /\ tj' = CheckPositive(tj, tjActual)
    /\ UNCHANGED <<tjExpected, tjActual, caseVars, runVars, mockVars, scoreVars,
                   diffVars, traceVars, retryVars, reviewVars>>

JudgeReturn ==
    /\ tj.pc = "positives"
    /\ tj.i > Len(tj.positives)
    /\ tj' = ToolJudgeResult(tj)
    /\ UNCHANGED <<tjExpected, tjActual, caseVars, runVars, mockVars, scoreVars,
                   diffVars, traceVars, retryVars, reviewVars>>

NextToolJudge == JudgeSplit \/ JudgeNegative \/ JudgePositive \/ JudgeReturn

SpecToolJudge == InitToolJudge /\ [][NextToolJudge]_vars

-----------------------------------------------------------------------------
(* pkg/review: Reviewer.Review, the interactive grading loop *)

FilterReview == "review"
FilterFail   == "fail"
FilterAll    == "all"

\* strings.TrimSpace(strings.ToLower(line)), on the lines of InputLines
NormalizeLine(line) ==
    CASE line = "FAIL " -> "fail"
      [] OTHER          -> line

\* strconv.Atoi on a normalized line: the decimal numerals among InputLines
\* parse, everything else is an error.
Atoi(s) ==
    CASE s = "2" -> [n |-> 2, ok |-> TRUE]
      [] s = "4" -> [n |-> 4, ok |-> TRUE]
      [] s = "7" -> [n |-> 7, ok |-> TRUE]
      [] OTHER   -> [n |-> 0, ok |-> FALSE]

applyGrade(c, input) ==
    CASE input \in {"pass", "p"} ->
           [c EXCEPT !.Status = "pass", !.Pass = TRUE, !.Score = One]
      [] input \in {"fail", "f"} ->
           [c EXCEPT !.Status = "fail", !.Pass = FALSE, !.Score = Zero]
      [] OTHER ->
           LET a == Atoi(input)
           IN IF a.ok /\ a.n >= 1 /\ a.n <= 5
              THEN [c EXCEPT !.Score = Rat(a.n, 5),
                             !.Pass = (a.n >= 4),
                             !.Status = IF a.n >= 4 THEN "pass" ELSE "fail"]
              ELSE c

\* The indices of the cases the filter shows, in the order of the results.
RECURSIVE filterCasesFrom(_, _, _)
filterCasesFrom(rs, filter, i) ==
    IF i > Len(rs) THEN <<>>
    ELSE LET shown ==
               CASE filter = FilterReview -> rs[i].Status = "review"
                 [] filter = FilterFail   -> rs[i].Status \in {"fail", "review"}
                 [] filter = FilterAll    -> TRUE
                 [] OTHER                 -> FALSE
         IN (IF shown THEN <<i>> ELSE <<>>) \o filterCasesFrom(rs, filter, i + 1)

filterCases(rs, filter) == filterCasesFrom(rs, filter, 1)

RECURSIVE TotalScore(_)
TotalScore(rs) ==
    IF rs = <<>> THEN Zero ELSE RatAdd(rs[1].Score, TotalScore(Tail(rs)))

\* result.ComputeStats without the latencies and the token totals, which
\* Review never changes.
ComputeStats(rs) ==
    LET errored == Cardinality({i \in DOMAIN rs : rs[i].Error # EmptyStr})
        passed  == Cardinality({i \in DOMAIN rs :
                                  rs[i].Error = EmptyStr /\ rs[i].Pass})
        failed  == Len(rs) - errored - passed
    IN [TotalCases   |-> Len(rs),
        PassedCases  |-> passed,
        FailedCases  |-> failed,
        ErroredCases |-> errored,
        PassRate     |-> IF Len(rs) - errored > 0
                         THEN Rat(passed, Len(rs) - errored) ELSE Zero,
        AvgScore     |-> IF Len(rs) = 0 THEN Zero
                         ELSE RatDiv(TotalScore(rs), Rat(Len(rs), 1))]

ReviewFrame0 ==
    [pc |-> "start", indices |-> <<>>, i |-> 1, reviewed |-> 0,
     read |-> <<>>, ret |-> 0, err |-> Nil]

\* The body of the loop for the case at position f.i once a line was scanned.
ReviewLine(f, line) ==
    LET input == NormalizeLine(line)
        seen  == Append(f.read, [idx |-> f.indices[f.i], input |-> input])
    IN IF input \in {"", "skip", "s"}
       THEN [f EXCEPT !.i = f.i + 1, !.read = seen]
       ELSE [f EXCEPT !.i = f.i + 1, !.read = seen,
                      !.reviewed = f.reviewed + 1]

(* SpecReview: one call of Review, one action per presented case *)

\* The case results a run leaves behind, as in testSummary.
ReviewedCases ==
    { [Status |-> "pass",   Pass |-> TRUE,  Score |-> One,  Error |-> EmptyStr],
      [Status |-> "review", Pass |-> FALSE, Score |-> Zero, Error |-> EmptyStr],
      [Status |-> "fail",   Pass |-> FALSE, Score |-> Zero, Error |-> EmptyStr],
      [Status |-> "error",  Pass |-> FALSE, Score |-> Zero,
       Error |-> <<"provider error">>] }

InputLines == {"pass", "FAIL ", "4", "2", "skip", "", "maybe", "7"}

InitReview ==
    /\ rvGiven \in SeqsUpTo(ReviewedCases, MaxReviewCases)
    /\ rvSummary = [Results |-> rvGiven, Stats |-> ComputeStats(rvGiven)]
    /\ rvFilter \in {FilterReview, FilterFail, FilterAll}
    /\ rvIn \in SeqsUpTo(InputLines, MaxLines)
    /\ rv = ReviewFrame0
    /\ IdleCase /\ IdleRun /\ IdleMock /\ IdleScore /\ IdleDiff /\ IdleTrace
    /\ IdleRetry /\ IdleToolJudge

\* filterCases and the early return when nothing matches the filter.
ReviewStart ==
    /\ rv.pc = "start"
    /\ LET indices == filterCases(rvSummary.Results, rvFilter)
       IN rv' = IF Len(indices) = 0
                THEN [rv EXCEPT !.pc = "returned", !.ret = 0, !.err = Nil]
                ELSE [rv EXCEPT !.pc = "loop", !.indices = indices]
    /\ UNCHANGED <<rvGiven, rvSummary, rvFilter, rvIn, caseVars, runVars,
                   mockVars, scoreVars, diffVars, traceVars, retryVars,
                   judgeVars>>

\* One iteration of the loop whose scanner.Scan finds a line.
ReviewCase ==
    /\ rv.pc = "loop"
    /\ rv.i <= Len(rv.indices)
    /\ rvIn # <<>>
    /\ LET idx   == rv.indices[rv.i]
           input == NormalizeLine(Head(rvIn))
       IN /\ rv' = ReviewLine(rv, Head(rvIn))
          /\ rvSummary' =
               IF input \in {"", "skip", "s"} THEN rvSummary
               ELSE [rvSummary EXCEPT
                       !.Results[idx] = applyGrade(rvSummary.Results[idx], input)]
    /\ rvIn' = Tail(rvIn)
    /\ UNCHANGED <<rvGiven, rvFilter, caseVars, runVars, mockVars, scoreVars,
                   diffVars, traceVars, retryVars, judgeVars>>

\* scanner.Scan finds the input at its end: break.
ReviewEOF ==
    /\ rv.pc = "loop"
    /\ rv.i <= Len(rv.indices)
    /\ rvIn = <<>>
    /\ rv' = [rv EXCEPT !.pc = "finish"]
    /\ UNCHANGED <<rvGiven, rvSummary, rvFilter, rvIn, caseVars, runVars,
                   mockVars, scoreVars, diffVars, traceVars, retryVars,
                   judgeVars>>

\* After the loop: the stats are recomputed and the count is returned.
ReviewReturn ==
    /\ \/ rv.pc = "finish"
       \/ rv.pc = "loop" /\ rv.i > Len(rv.indices)
    /\ rvSummary' = [rvSummary EXCEPT !.Stats = ComputeStats(rvSummary.Results)]
    /\ rv' = [rv EXCEPT !.pc = "returned", !.ret = rv.reviewed, !.err = Nil]
    /\ UNCHANGED <<rvGiven, rvFilter, rvIn, caseVars, runVars, mockVars,
                   scoreVars, diffVars, traceVars, retryVars, judgeVars>>

NextReview == ReviewStart \/ ReviewCase \/ ReviewEOF \/ ReviewReturn

SpecReview == InitReview /\ [][NextReview]_vars

-----------------------------------------------------------------------------
(* Properties of Run (Spec) *)

\* The cases admitted by the gate and not yet released.
Active == {i \in Cases : gpc[i] \in {"run", "store", "progress", "exit"}}

EffectiveConcurrency == IF configured < 1 THEN 1 ELSE configured

\* C1: the number of cases that are mid-execution at the same time never
\* exceeds the configured concurrency, or 1 when the configured value is
\* below 1.
C1_BoundedConcurrency == Cardinality(Active) <= EffectiveConcurrency

\* The gate is full and a spawned case is held back at it.
C1_Witness ==
    /\ Cardinality(Active) = EffectiveConcurrency
    /\ \E i \in Cases : gpc[i] = "acquire"

\* C2: when Run returns, slot i of result.Cases holds the result of input
\* case i, whatever order the cases were admitted and finished in.
C2_InputOrder ==
    mainPc = "returned" =>
        \A i \in Cases : /\ resultCases[i].CaseID = suite[i].ID
                         /\ resultCases[i].CaseName = suite[i].Name

\* Run has returned and the second case finished before the first.
C2_Witness ==
    /\ mainPc = "returned"
    /\ current[2] < current[1]
    /\ resultCases[1].CaseID = suite[1].ID

\* The provider fails the conversation: its first answer that does not
\* request tools, among the calls the loop can make, is an error.
ProviderFails(s) ==
    \E n \in 0..(MaxToolLoopIterations - 1) :
        /\ Complete(s, n).err # Nil
        /\ \A m \in 0..(n - 1) : /\ Complete(s, m).err = Nil
                                 /\ Len(Complete(s, m).ToolCalls) > 0

\* Case i fails: its input does not interpolate, or the provider fails it.
CaseFails(i) ==
    \/ PromptVariant.UserVar \notin DOMAIN suite[i].Input
    \/ provided[i] # <<>> /\ ProviderFails(provided[i][1])

\* C5: Run returns a nil error and one result per input case; a failure is
\* recorded on the result of the case that failed and on no other, and every
\* case has run to its own end.
C5_CaseFailuresStayLocal ==
    mainPc = "returned" =>
        /\ runRet = Nil
        /\ Len(resultCases) = Len(suite)
        /\ \A i \in Cases :
              /\ gpc[i] = "done"
              /\ resultCases[i] = cr[i]
              /\ resultCases[i].CaseID = suite[i].ID
              /\ (resultCases[i].Error # EmptyStr) <=> CaseFails(i)

\* Run has returned, one case failed and a sibling produced its final answer.
C5_Witness ==
    /\ mainPc = "returned"
    /\ \E i, j \in Cases :
          /\ resultCases[i].Error # EmptyStr
          /\ resultCases[j].Error = EmptyStr
          /\ resultCases[j].FinalResponse = RespFinal.Content

-----------------------------------------------------------------------------
(* Properties of runCase (SpecCase, FairSpecCase) *)

Contains(str, token) == \E k \in 1..Len(str) : str[k] = token

\* The loop ran out of iterations: every provider turn requested tools.
CapReached == rc.pc = "returned" /\ rc.iteration = MaxToolLoopIterations

\* C3: a case whose tool loop reaches the iteration cap ends as errored, with
\* a "max iterations exceeded" error on its result.
C3_CapIsError ==
    CapReached => Contains(rc.cr.Error, "max iterations exceeded")

\* C4: the tool loop terminates: a case makes at most MaxToolLoopIterations
\* provider calls and then returns its result.
C4_LoopTerminates ==
    /\ [](rc.calls <= MaxToolLoopIterations)
    /\ <>(rc.pc = "returned")

\* A case returned after the provider requested tools on every one of the
\* MaxToolLoopIterations calls.
C4_Witness ==
    /\ rc.pc = "returned"
    /\ rc.calls = MaxToolLoopIterations
    /\ rc.iteration = MaxToolLoopIterations

-----------------------------------------------------------------------------
(* Properties of the MockRegistry (SpecMock) *)

\* The Resolve calls made for one tool, in the order they took the lock.
ToolEntries(t) == SelectSeq(served, LAMBDA e : e.ToolName = t)

\* A call served the response resp: its content on success, a failure that
\* carries its error text when the response simulates an error.
ServedBy(e, resp) ==
    IF resp.Error = EmptyStr
    THEN e.content = resp.Content /\ e.err = Nil
    ELSE /\ e.content = EmptyStr
         /\ e.err # Nil
         /\ \A k \in 1..Len(resp.Error) : Contains(e.err, resp.Error[k])

\* C6: for a tool configured with one-shot responses R1..Rn, the k-th Resolve
\* call returns Rk for k <= n; for k > n it returns the default response when
\* there is one and fails with an "exhausted" error when there is none.
C6_SequentialThenDefault ==
    \A t \in (DOMAIN reg.mocks) \ reRegistered :
        LET cfg == reg.mocks[t]
            es == ToolEntries(t)
        IN \A k \in 1..Len(es) :
              es[k].done =>
                 IF k <= Len(cfg.Responses)
                 THEN ServedBy(es[k], cfg.Responses[k])
                 ELSE IF cfg.DefaultResponse # Nil
                 THEN ServedBy(es[k], cfg.DefaultResponse[1])
                 ELSE /\ es[k].content = EmptyStr
                      /\ es[k].err = ErrExhausted(t)

\* Two one-shot responses and a default: four calls returned, the last two
\* were served the default.
C6_Witness ==
    /\ "search" \in DOMAIN reg.mocks
    /\ "search" \notin reRegistered
    /\ Len(reg.mocks["search"].Responses) = 2
    /\ reg.mocks["search"].Responses[1] # reg.mocks["search"].Responses[2]
    /\ reg.mocks["search"].DefaultResponse = <<RespDefault>>
    /\ Len(ToolEntries("search")) = 4
    /\ \A k \in 1..4 : ToolEntries("search")[k].done

\* C7: Resolve for a tool without a config fails with a "no mock configured"
\* error, returns no content and leaves every per-tool counter unchanged.
C7_UnmockedFailsClosed ==
    [][\A p \in Callers, t \in MockTools :
          (ResolveBegin(p, t) /\ t \notin DOMAIN reg.mocks) =>
             /\ reg'.callIdx = reg.callIdx
             /\ cpc'[p] = "idle"
             /\ served'[Len(served')].done
             /\ served'[Len(served')].content = EmptyStr
             /\ Contains(served'[Len(served')].err, "no mock configured for tool ")]_vars

\* A call for the unmocked tool has failed after the counter of another tool
\* had advanced.
C7_Witness ==
    /\ Len(served) > 0
    /\ served[Len(served)].ToolName = "unknown_tool"
    /\ served[Len(served)].err = ErrNoMock("unknown_tool")
    /\ reg.callIdx["search"] > 0
    /\ reg.callIdx["unknown_tool"] = 0

\* The Resolve calls that have returned.
Returned == {k \in DOMAIN served : served[k].done}

\* C8: every Resolve call that has returned, failed or not, has a record in
\* the call log.
C8_EveryCallLogged == Len(GetCalls(reg)) = Cardinality(Returned)

-----------------------------------------------------------------------------
(* Properties of the CompositeScorer (SpecScore) *)

Judges == 1..Len(configs)

\* The weight the claims give a judge: the configured one, 1 when it is zero.
ClaimWeight(k) ==
    IF configs[k].Weight.num = 0 THEN One ELSE configs[k].Weight

\* Sum of w_i and sum of score_i * w_i over the first n judges.
RECURSIVE SumWeightsTo(_)
SumWeightsTo(n) ==
    IF n = 0 THEN Zero ELSE RatAdd(SumWeightsTo(n - 1), ClaimWeight(n))

RECURSIVE SumWeightedTo(_)
SumWeightedTo(n) ==
    IF n = 0 THEN Zero
    ELSE RatAdd(SumWeightedTo(n - 1),
                RatMul(configs[n].Judge.Score, ClaimWeight(n)))

SumWeights  == SumWeightsTo(Len(configs))
SumWeighted == SumWeightedTo(Len(configs))

AllNormal ==
    \A k \in Judges : /\ configs[k].Judge.err = Nil
                      /\ configs[k].Judge.Reason # <<"review">>

\* C9 as stated: with every judge returning normally and none flagged for
\* review, composite * sum(w_i) = sum(score_i * w_i).
C9_WeightedAverage ==
    (sc.pc = "done" /\ AllNormal) =>
        RatEq(RatMul(sc.result.CompositeScore, SumWeights), SumWeighted)

\* C9 amended: the same, when the sum of the weights is positive; with a sum
\* that is not positive the composite score is 0.
C9_WeightedAveragePositive ==
    (sc.pc = "done" /\ AllNormal) =>
        IF RatGT(SumWeights, Zero)
        THEN RatEq(RatMul(sc.result.CompositeScore, SumWeights), SumWeighted)
        ELSE RatEq(sc.result.CompositeScore, Zero)

\* Scores 1.0 with weight 3 and 0.0 with the default weight: composite 0.75.
C9_Witness ==
    /\ sc.pc = "done"
    /\ AllNormal
    /\ Len(configs) = 2
    /\ configs[1].Weight = Rat(3, 1) /\ configs[1].Judge.Score = One
    /\ configs[2].Weight = Zero /\ configs[2].Judge.Score = Zero
    /\ RatEq(sc.result.CompositeScore, Rat(3, 4))

\* C10: if any judge's evaluation returns an error, the composite result has
\* Status = Error and Pass = false.
C10_ErrorOverrides ==
    (sc.pc = "done" /\ \E k \in Judges : configs[k].Judge.err # Nil) =>
        /\ sc.result.Status = "error"
        /\ sc.result.Pass = FALSE

\* One judge errored while another scored 1.0, above the threshold.
C10_Witness ==
    /\ sc.pc = "done"
    /\ \E k \in Judges : configs[k].Judge.err # Nil
    /\ RatGE(sc.result.CompositeScore, cs.Threshold)
    /\ RatEq(sc.result.CompositeScore, One)
    /\ sc.result.Status = "error"

\* A judge errored, a judge was flagged for review.
AnyError  == \E k \in Judges : configs[k].Judge.err # Nil
AnyReview == \E k \in Judges : /\ configs[k].Judge.err = Nil
                                /\ configs[k].Judge.Reason = <<"review">>

\* C11: the composite verdict is Pass if and only if the composite score is
\* greater than or equal to the scorer's threshold and no judge produced an
\* Error or a Review flag; a score equal to the threshold passes.
C11_PassIffThresholdAndClean ==
    sc.pc = "done" =>
        /\ sc.result.Pass <=> (/\ RatGE(sc.result.CompositeScore, cs.Threshold)
                                /\ ~AnyError
                                /\ ~AnyReview)
        /\ sc.result.Pass <=> (sc.result.Status = "pass")

\* Scores 1.0 with weight 3 and 0.0 with weight 1 against a threshold of
\* 0.75: the composite equals the threshold and the verdict is Pass.
C11_Witness ==
    /\ sc.pc = "done"
    /\ ~AnyError /\ ~AnyReview
    /\ Len(configs) = 2
    /\ RatEq(cs.Threshold, Rat(3, 4))
    /\ RatEq(sc.result.CompositeScore, cs.Threshold)
    /\ sc.result.Pass
    /\ sc.result.Status = "pass"

\* C12: status precedence is Error over Review over the threshold-derived
\* Pass/Fail: with an errored judge the status is Error even if another judge
\* is flagged for review; with no errored judge and a review-flagged judge it
\* is Review even if the composite score reaches the threshold.
C12_StatusPrecedence ==
    sc.pc = "done" =>
        /\ AnyError => sc.result.Status = "error"
        /\ (~AnyError /\ AnyReview) => sc.result.Status = "review"
        /\ (~AnyError /\ ~AnyReview) =>
              sc.result.Status =
                 IF RatGE(sc.result.CompositeScore, cs.Threshold)
                 THEN "pass" ELSE "fail"

\* One judge errored, another was flagged for review, and the composite
\* score reaches the threshold: the status is Error.
C12_Witness ==
    /\ sc.pc = "done"
    /\ AnyError /\ AnyReview
    /\ RatGE(sc.result.CompositeScore, cs.Threshold)
    /\ sc.result.Status = "error"

\* C13: with zero configured judges the composite score is 0.0, the status is
\* Fail and Pass is false, for every threshold the scorer can be built with.
C13_EmptyJudgesFail ==
    (sc.pc = "done" /\ Len(configs) = 0) =>
        /\ RatEq(sc.result.CompositeScore, Zero)
        /\ sc.result.Status = "fail"
        /\ sc.result.Pass = FALSE

\* The judges classified Pass or Fail: no evaluation error, no review flag.
Contributes(k) ==
    /\ configs[k].Judge.err = Nil
    /\ configs[k].Judge.Reason # <<"review">>

\* Sum of w_i and of score_i * w_i over the Pass/Fail judges among the
\* first n.
RECURSIVE ContribWeightsTo(_)
ContribWeightsTo(n) ==
    IF n = 0 THEN Zero
    ELSE IF Contributes(n)
    THEN RatAdd(ContribWeightsTo(n - 1), ClaimWeight(n))
    ELSE ContribWeightsTo(n - 1)

RECURSIVE ContribWeightedTo(_)
ContribWeightedTo(n) ==
    IF n = 0 THEN Zero
    ELSE IF Contributes(n)
    THEN RatAdd(ContribWeightedTo(n - 1),
                RatMul(configs[n].Judge.Score, ClaimWeight(n)))
    ELSE ContribWeightedTo(n - 1)

\* C14: only judges classified Pass or Fail add to the numerator and the
\* denominator of the composite; errored and review-flagged judges add
\* nothing, so the composite is 0 when no judge is classified Pass or Fail.
C14_OnlyPassFailContribute ==
    sc.pc = "done" =>
        /\ RatEq(sc.totalWeight, ContribWeightsTo(Len(configs)))
        /\ RatEq(sc.weightedSum, ContribWeightedTo(Len(configs)))
        /\ (\A k \in Judges : ~Contributes(k)) =>
              RatEq(sc.result.CompositeScore, Zero)

-----------------------------------------------------------------------------
(* Properties of Compare (SpecDiff) *)

UniqueNames(run) ==
    \A i, j \in 1..Len(run) : run[i].CaseName = run[j].CaseName => i = j

NamesOf(run) == {run[i].CaseName : i \in 1..Len(run)}

ScoreIn(run, n) == run[CHOOSE i \in 1..Len(run) : run[i].CaseName = n].Score

\* The positions of the result's case list that carry the name n.
DiffsFor(n) == {k \in 1..Len(df.Cases) : df.Cases[k].CaseName = n}

\* The diff of a name found in both runs follows the threshold rule.
FollowsThresholdRule(cd, delta) ==
    /\ RatEq(cd.ScoreDelta, delta)
    /\ cd.Category \in {"unchanged", "improved", "regressed"}
    /\ RatLE(RatAbs(delta), diffThreshold) <=> cd.Category = "unchanged"
    /\ cd.Category = "improved" => RatGT(delta, diffThreshold)
    /\ cd.Category = "regressed" => RatGT(RatNeg(diffThreshold), delta)

C16_CountsMatchCases ==
    df.pc = "returned" =>
        /\ \A c \in Categories :
              df.Summary[c] =
                 Cardinality({k \in 1..Len(df.Cases) : df.Cases[k].Category = c})
        /\ df.Summary["improved"] + df.Summary["regressed"]
              + df.Summary["unchanged"] + df.Summary["new"]
              + df.Summary["removed"] = Len(df.Cases)

\* A result with a regressed, a new and a removed case.
C16_Witness ==
    /\ df.pc = "returned"
    /\ df.Summary["regressed"] = 1
    /\ df.Summary["new"] = 1
    /\ df.Summary["removed"] = 1
    /\ Len(df.Cases) = 3

-----------------------------------------------------------------------------
(* Properties of the AgentTrace (SpecTrace) *)

RECURSIVE SumInput(_)
SumInput(us) ==
    IF us = <<>> THEN 0 ELSE us[1].InputTokens + SumInput(Tail(us))

RECURSIVE SumOutput(_)
SumOutput(us) ==
    IF us = <<>> THEN 0 ELSE us[1].OutputTokens + SumOutput(Tail(us))

RECURSIVE SumBoth(_)
SumBoth(us) ==
    IF us = <<>> THEN 0
    ELSE (us[1].InputTokens + us[1].OutputTokens) + SumBoth(Tail(us))

\* C17: after any sequence of AddUsage(i_k, o_k) calls the usage totals are
\* input = sum of i_k, output = sum of o_k, total = sum of (i_k + o_k), and
\* total = input + output in every reachable state.
C17_UsageTotals ==
    /\ trace.Usage.InputTokens = SumInput(tlog.usage)
    /\ trace.Usage.OutputTokens = SumOutput(tlog.usage)
    /\ trace.Usage.TotalTokens = SumBoth(tlog.usage)
    /\ trace.Usage.TotalTokens =
          trace.Usage.InputTokens + trace.Usage.OutputTokens

\* Three AddUsage(100, 50) calls: input 300, output 150, total 450.
C17_Witness ==
    /\ tlog.usage = <<Usage(100, 50), Usage(100, 50), Usage(100, 50)>>
    /\ trace.Usage = [InputTokens |-> 300, OutputTokens |-> 150,
                      TotalTokens |-> 450]

\* What the three accessors return when called in the current state, with
\* each parameter map shown by its contents.
Observed ==
    [Messages  |-> GetMessages(trace),
     ToolCalls |-> [k \in 1..Len(trace.ToolCalls) |->
                      [GetToolCalls(trace)[k] EXCEPT !.Parameters = heap[@]]],
     Usage     |-> GetUsage(trace)]

\* C18: the values the accessors return are independent copies: no write a
\* caller makes to a returned message, a returned tool-call record or the
\* parameter map of a returned record changes what a later accessor call
\* returns.
C18_AccessorsReturnCopies ==
    [][(\E p \in TraceCallers :
           MutateMessage(p) \/ MutateToolCall(p) \/ MutateParameters(p))
         => Observed' = Observed]_vars

AllIdle == \A p \in TraceCallers : tpc[p] = "idle"

\* C19: concurrent AddMessage, AddToolCall and AddUsage calls lose no update:
\* once m, t and u of them have completed the trace holds m messages, t
\* tool-call records, and usage input u*i and output u*o for calls that all
\* added (i, o).
C19_NoLostUpdate ==
    AllIdle =>
        /\ Len(trace.Messages) = tlog.messages
        /\ Len(trace.ToolCalls) = tlog.toolCalls
        /\ \A a \in UsageAmounts :
              (\A k \in 1..Len(tlog.usage) : tlog.usage[k] = a) =>
                 /\ trace.Usage.InputTokens = Len(tlog.usage) * a.InputTokens
                 /\ trace.Usage.OutputTokens = Len(tlog.usage) * a.OutputTokens

\* Two AddUsage calls and an AddMessage call, made by different callers, have
\* completed.
C19_Witness ==
    /\ AllIdle
    /\ tlog.writers = TraceCallers
    /\ tlog.messages = 1
    /\ Len(tlog.usage) = 2
    /\ tlog.usage[1] = tlog.usage[2]
    /\ trace.Usage.InputTokens = 2 * tlog.usage[1].InputTokens

-----------------------------------------------------------------------------
(* Order of tool calls within one case (SpecCase) *)

\* The tool calls the provider emitted in the first n turns, in order.
RECURSIVE Emitted(_)
Emitted(n) ==
    IF n = 0 THEN <<>>
    ELSE Emitted(n - 1) \o Complete(script, n - 1).ToolCalls

\* The tool-result messages of the conversation and of the trace.
ToolResults(msgs) == SelectSeq(msgs, LAMBDA m : m.Role = "tool")

\* A resolution the registry logs: it selected a response.
Logged(rec) == rec.Error = Nil \/ rec.Error[1] = "mock error for tool "

\* C20: within one case tool calls are resolved one at a time in the order
\* the provider emitted them, and the trace's tool-call records and
\* tool-result messages appear in exactly that order, turn after turn.
C20_ToolCallsInOrder ==
    rc.tr # Nil =>
        LET emitted == Emitted(rc.iteration)
            records == rc.tr[1].ToolCalls
            sent    == ToolResults(rc.messages)
            traced  == ToolResults(rc.tr[1].Messages)
            logged  == SelectSeq(records, Logged)
            calls   == GetCalls(rc.registry)
        IN /\ Len(records) = Len(emitted)
           /\ Len(sent) = Len(emitted)
           /\ Len(traced) = Len(emitted)
           /\ \A k \in 1..Len(emitted) :
                 /\ records[k].ToolName = emitted[k].Name
                 /\ records[k].Parameters = emitted[k].Parameters
                 /\ sent[k].ToolCallID = emitted[k].ID
                 /\ traced[k].Content = sent[k].Content
                 /\ traced[k].Content =
                       IF records[k].Error # Nil
                       THEN <<"Error: ">> \o records[k].Error
                       ELSE records[k].Response
           /\ Len(calls) = Len(logged)
           /\ \A k \in 1..Len(calls) :
                 /\ calls[k].ToolName = logged[k].ToolName
                 /\ calls[k].Parameters = logged[k].Parameters
           /\ \A k, l \in 1..Len(records) :
                 (/\ k < l
                  /\ records[k].ToolName = "search"
                  /\ records[l].ToolName = "search") =>
                     records[l].Error = ErrExhausted("search")

\* A turn with one tool call, then two turns with two tool calls each: five
\* records, the one-shot response of "search" went to the earlier turn.
C20_Witness ==
    /\ rc.tr # Nil
    /\ rc.iteration = 3
    /\ script.prefix = <<RespTool1>>
    /\ script.tail = RespTool2
    /\ Len(rc.tr[1].ToolCalls) = 5
    /\ rc.tr[1].ToolCalls[2].Error = ErrMock("search", <<"permission denied">>)
    /\ rc.tr[1].ToolCalls[4].Error = ErrExhausted("search")

-----------------------------------------------------------------------------
(* Failures inside one case (SpecCase) *)

\* The positions of the tool-call records whose resolution failed.
FailedRecords == {k \in 1..Len(rc.tr[1].ToolCalls) : rc.tr[1].ToolCalls[k].Error # Nil}

\* C21: a failed mock resolution (unmocked tool, exhausted responses, simulated
\* error) does not end the case: the tool call is recorded with its error, the
\* history and the trace get a tool-result message whose content is "Error: "
\* followed by the error text, the remaining tool calls of the turn are still
\* resolved, the next provider turn follows, and the case's own error stays
\* empty (only a provider error sets it).
C21_MockFailureContinues ==
    rc.tr # Nil =>
        LET records == rc.tr[1].ToolCalls
            sent    == ToolResults(rc.messages)
            traced  == ToolResults(rc.tr[1].Messages)
        IN /\ Len(records) = Len(Emitted(rc.iteration))
           /\ Len(sent) = Len(records)
           /\ Len(traced) = Len(records)
           /\ \A k \in FailedRecords :
                 /\ records[k].Error \in {ErrNoMock(records[k].ToolName),
                                          ErrExhausted(records[k].ToolName),
                                          ErrMock(records[k].ToolName,
                                                  <<"permission denied">>)}
                 /\ sent[k].Content = <<"Error: ">> \o records[k].Error
                 /\ traced[k].Content = <<"Error: ">> \o records[k].Error
           /\ rc.calls = rc.iteration =>
                 /\ rc.cr.Error = EmptyStr
                 /\ rc.pc = "loop" \/ ~LoopGuard(rc.iteration)
           /\ rc.cr.Error # EmptyStr =>
                 /\ rc.calls = rc.iteration + 1
                 /\ Complete(script, rc.calls - 1).err # Nil

\* One turn asks for a tool whose mock simulates an error and for an unmocked
\* tool; the next turn answers and the case returns without an error.
C21_Witness ==
    /\ rc.pc = "returned"
    /\ script.prefix = <<RespTool2>>
    /\ script.tail = RespFinal
    /\ rc.calls = 2
    /\ FailedRecords = {1, 2}
    /\ rc.tr[1].ToolCalls[1].Error = ErrMock("search", <<"permission denied">>)
    /\ rc.tr[1].ToolCalls[2].Error = ErrNoMock("unknown_tool")
    /\ rc.cr.FinalResponse = RespFinal.Content
    /\ rc.cr.Error = EmptyStr

\* The provider call made last returned an error.
ProviderFailed == rc.calls > 0 /\ Complete(script, rc.calls - 1).err # Nil

\* What a trace has recorded, its Finished mark aside.
Recorded(t) == [Messages |-> t.Messages, ToolCalls |-> t.ToolCalls, Usage |-> t.Usage]

\* C22: when the provider call fails at any iteration the case ends at once
\* as errored: its error wraps the provider's error, its final response is
\* empty, no further provider call or tool resolution happens, and the result
\* returned still carries the trace with everything recorded before the
\* failure.
C22_ProviderErrorEndsCase ==
    [][ /\ ProviderFailed' =>
              /\ rc'.cr.Error = <<"provider error: ">> \o Complete(script, rc'.calls - 1).err
              /\ rc'.cr.FinalResponse = EmptyStr
              /\ rc'.pc \in {"break", "returned"}
        /\ (~ProviderFailed /\ ProviderFailed') =>
              /\ rc'.pc = "break"
              /\ rc'.calls = rc.calls + 1
              /\ rc'.tr = rc.tr
              /\ rc'.messages = rc.messages
              /\ rc'.registry = rc.registry
        /\ ProviderFailed =>
              /\ rc'.pc = "returned"
              /\ rc'.calls = rc.calls
              /\ rc'.iteration = rc.iteration
              /\ rc'.messages = rc.messages
              /\ rc'.registry = rc.registry
              /\ rc'.cr.Trace # Nil
              /\ Recorded(rc'.cr.Trace[1]) = Recorded(rc.tr[1])
              /\ rc'.cr.Trace[1].Finished
      ]_vars

\* The second provider call fails after a turn that resolved one tool call:
\* the result is errored and its trace holds that turn.
C22_Witness ==
    /\ rc.pc = "returned"
    /\ script.prefix = <<RespTool1>>
    /\ script.tail = RespError
    /\ rc.calls = 2
    /\ rc.cr.Error = <<"provider error: ", "connection refused">>
    /\ rc.cr.FinalResponse = EmptyStr
    /\ Len(rc.cr.Trace[1].ToolCalls) = 1
    /\ Len(rc.cr.Trace[1].Messages) = 3
    /\ rc.cr.Trace[1].Usage.TotalTokens = 3

\* The case's input lacks the variable the prompt's user template names.
InputIncomplete == PromptVariant.UserVar \notin DOMAIN caseIn.Input

\* C23: when prompt interpolation fails the case ends immediately with a
\* case-level error; no provider call is made and no mock is resolved.
C23_InterpolationFailureEndsCase ==
    (InputIncomplete /\ rc.pc # "start") =>
        /\ rc.pc = "returned"
        /\ rc.cr.Error # EmptyStr
        /\ rc.cr.Error[1] = "interpolating prompt: "
        /\ rc.cr.FinalResponse = EmptyStr
        /\ rc.cr.CaseName = caseIn.Name
        /\ rc.calls = 0
        /\ rc.iteration = 0
        /\ rc.messages = <<>>
        /\ GetCalls(rc.registry) = <<>>
        /\ \A t \in ToolNames : rc.registry.callIdx[t] = 0
        /\ rc.tr = Nil
        /\ rc.cr.Trace = Nil

\* A case whose input has no "question", run against a provider that would
\* have asked for a tool: it returned errored without calling it.
C23_Witness ==
    /\ InputIncomplete
    /\ rc.pc = "returned"
    /\ script.prefix = <<RespTool1>>
    /\ script.tail = RespFinal
    /\ rc.calls = 0
    /\ rc.cr.Error[1] = "interpolating prompt: "

\* The token counts of the provider responses that returned successfully
\* among the first n calls of the case.
RECURSIVE SuccessfulInput(_)
SuccessfulInput(n) ==
    IF n = 0 THEN 0
    ELSE LET resp == Complete(script, n - 1)
         IN SuccessfulInput(n - 1) + (IF resp.err = Nil THEN resp.Usage.InputTokens ELSE 0)

RECURSIVE SuccessfulOutput(_)
SuccessfulOutput(n) ==
    IF n = 0 THEN 0
    ELSE LET resp == Complete(script, n - 1)
         IN SuccessfulOutput(n - 1) + (IF resp.err = Nil THEN resp.Usage.OutputTokens ELSE 0)

\* C24: the trace's usage totals are the sums of the input and output tokens
\* of all provider responses that returned successfully, tool-requesting or
\* final; a failed call adds nothing. It holds after every turn and of the
\* trace the returned result carries.
C24_UsageSumsResponses ==
    /\ rc.tr # Nil =>
          /\ rc.tr[1].Usage.InputTokens = SuccessfulInput(rc.calls)
          /\ rc.tr[1].Usage.OutputTokens = SuccessfulOutput(rc.calls)
          /\ rc.tr[1].Usage.TotalTokens =
                SuccessfulInput(rc.calls) + SuccessfulOutput(rc.calls)
    /\ (rc.pc = "returned" /\ rc.tr # Nil) =>
          /\ rc.cr.Trace # Nil
          /\ rc.cr.Trace[1].Usage = rc.tr[1].Usage

\* A tool-requesting response (2 in, 1 out) followed by the final response
\* (3 in, 1 out): the returned trace holds 5 in, 2 out.
C24_Witness ==
    /\ rc.pc = "returned"
    /\ script.prefix = <<RespTool1>>
    /\ script.tail = RespFinal
    /\ rc.calls = 2
    /\ rc.cr.Trace[1].Usage.InputTokens = 5
    /\ rc.cr.Trace[1].Usage.OutputTokens = 2

-----------------------------------------------------------------------------
(* The progress callback and cancellation (Spec) *)

\* The case a progress call was made for.
CaseOf(call) == CHOOSE i \in Cases : suite[i].Name = call.caseName

\* The cases that have passed the locked section, and the count each took.
Counted == {i \in Cases : gpc[i] \in {"progress", "exit", "done"}}

\* C25 as stated: the k-th case to finish, in the order the completion
\* counter is updated under the lock, is reported to the callback with count k.
C25_ReportsCount ==
    \A n \in 1..Len(progressCalls) :
        progressCalls[n].index = current[CaseOf(progressCalls[n])]

\* C25 amended: the k-th case to finish (k = 1..N, in the order the
\* completion counter is updated under the lock) is reported to the callback
\* with the 0-based index k - 1.
C25_ReportsIndex ==
    /\ {current[i] : i \in Counted} = 1..completed
    /\ \A i, j \in Counted : current[i] = current[j] => i = j
    /\ \A n \in 1..Len(progressCalls) :
          /\ CaseOf(progressCalls[n]) \in Counted
          /\ progressCalls[n].index = current[CaseOf(progressCalls[n])] - 1
          /\ progressCalls[n].index \in 0..(Len(suite) - 1)

\* Case 2 finished first and case 1 second; both callbacks have been made.
C25_Witness ==
    /\ hasProgress
    /\ NumCases >= 2
    /\ current[2] = 1
    /\ current[1] = 2
    /\ Len(progressCalls) = 2
    /\ \E n \in 1..2 : /\ progressCalls[n].caseName = suite[1].Name
                        /\ progressCalls[n].index = 1

\* C26: with a progress callback, it is invoked exactly once for every case
\* of the suite, only after that case's result has been written to its result
\* slot, every invocation carries total = N, and Run returns only after all N
\* invocations have returned.
C26_CallbackOncePerCase ==
    [][ /\ progressCalls' # progressCalls =>
              \E i \in Cases :
                  /\ hasProgress
                  /\ Len(progressCalls') = Len(progressCalls) + 1
                  /\ SubSeq(progressCalls', 1, Len(progressCalls)) = progressCalls
                  /\ progressCalls'[Len(progressCalls')].caseName = suite[i].Name
                  /\ progressCalls'[Len(progressCalls')].total = Len(suite)
                  /\ \A n \in 1..Len(progressCalls) :
                        progressCalls[n].caseName # suite[i].Name
                  /\ resultCases[i] = cr[i]
                  /\ resultCases[i].CaseName = suite[i].Name
                  /\ gpc[i] = "progress"
        /\ (mainPc' = "returned" /\ hasProgress) =>
              /\ Len(progressCalls') = Len(suite)
              /\ \A i \in Cases :
                    /\ gpc'[i] = "done"
                    /\ \E n \in 1..Len(progressCalls') :
                          progressCalls'[n].caseName = suite[i].Name
        /\ ~hasProgress => progressCalls' = <<>>
      ]_vars

\* Run has returned after one callback per case, one of them for a case
\* that ended with an error.
C26_Witness ==
    /\ mainPc = "returned"
    /\ hasProgress
    /\ Len(progressCalls) = Len(suite)
    /\ \A n \in 1..Len(progressCalls) : progressCalls[n].total = NumCases
    /\ \E n \in 1..Len(progressCalls) : progressCalls[n].err # EmptyStr

\* The provider call of case i ended with the context's error.
Cancelled(i) ==
    /\ provided[i] # <<>>
    /\ \E n \in 0..(MaxToolLoopIterations - 1) :
          /\ Complete(provided[i][1], n).err \in {RespCtxErr.err, RespCanceled.err}
          /\ \A m \in 0..(n - 1) : /\ Complete(provided[i][1], m).err = Nil
                                   /\ Len(Complete(provided[i][1], m).ToolCalls) > 0

\* C27: a cancellation surfaced by the provider call is handled exactly like
\* a provider error: the case's error is non-empty (it wraps the context's
\* error), its final response is empty, and Run still returns a nil error with
\* a result for that case.
C27_CancellationIsProviderError ==
    \A i \in Cases :
        (Cancelled(i) /\ gpc[i] # "run") =>
            /\ cr[i].Error # EmptyStr
            /\ cr[i].Error[1] = "provider error: "
            /\ SubSeq(cr[i].Error, 2, Len(cr[i].Error)) \in {RespCtxErr.err, RespCanceled.err}
            /\ cr[i].FinalResponse = EmptyStr
            /\ mainPc = "returned" =>
                  /\ runRet = Nil
                  /\ resultCases[i] = cr[i]
                  /\ resultCases[i].CaseName = suite[i].Name

\* Run has returned; one case was cancelled at its first provider call, the
\* other after a turn of tool calls.
C27_Witness ==
    /\ mainPc = "returned"
    /\ runRet = Nil
    /\ \E i, j \in Cases :
          /\ Cancelled(i) /\ Cancelled(j)
          /\ resultCases[i].Error = <<"provider error: ", "context canceled">>
          /\ resultCases[j].Error = <<"provider error: ", "context deadline exceeded">>
          /\ resultCases[j].Trace # Nil
          /\ Len(resultCases[j].Trace[1].ToolCalls) = 1

-----------------------------------------------------------------------------
(* The case's timeout (SpecDeadline) *)

\* C28: the case's timeout bounds the whole tool loop, not only a provider
\* call in flight: once the deadline has expired the executor resolves no
\* further tool call and the case terminates as errored, whether the expiry
\* happens during a provider call, during a mock delay or between two tool
\* calls of one turn.
C28_TimeoutBoundsToolLoop ==
    [][ /\ expired =>
              /\ rc'.registry = rc.registry
              /\ rc'.tr[1].ToolCalls = rc.tr[1].ToolCalls
        /\ (expired' /\ rc'.pc = "returned") => rc'.cr.Error # EmptyStr
      ]_vars

-----------------------------------------------------------------------------
(* Filter (SpecDiff) *)

\* The positions of the original's diffs whose category is in the list.
Kept(cases, categories) ==
    {k \in 1..Len(cases) :
        \E c \in 1..Len(categories) : cases[k].Category = categories[c]}

\* The n-th position of a set of positions, in increasing order.
NthOf(S, n) == CHOOSE k \in S : Cardinality({j \in S : j < k}) = n - 1

\* C29: Filter with a non-empty category list returns a DiffResult whose case
\* list is exactly the original's diffs whose category is in the list, in the
\* original order, and leaves the original unchanged; Filter with an empty
\* list yields all of the original's cases.
C29_FilterKeepsMatching ==
    [][ df'.pc = "filtered" =>
          LET orig == df.Cases
              cats == df'.categories
              out  == df'.filtered[1].Cases
              kept == Kept(orig, cats)
          IN /\ df'.Cases = df.Cases
             /\ df'.Summary = df.Summary
             /\ Len(cats) = 0 => out = orig
             /\ Len(cats) > 0 =>
                   /\ Len(out) = Cardinality(kept)
                   /\ \A n \in 1..Len(out) : out[n] = orig[NthOf(kept, n)]
      ]_vars

\* Three diffs (improved, new, removed) filtered by a list naming the last
\* two categories: two diffs are returned, in the original order.
C29_Witness ==
    /\ df.pc = "filtered"
    /\ df.categories = <<"unchanged", "new", "removed">>
    /\ Len(df.Cases) = 3
    /\ df.Cases[1].Category = "improved"
    /\ Len(df.filtered[1].Cases) = 2
    /\ df.filtered[1].Cases[1].Category = "new"
    /\ df.filtered[1].Cases[2].Category = "removed"

-----------------------------------------------------------------------------
(* HumanReviewJudge inside the composite (SpecScore) *)

\* A HumanReviewJudge is among the judges.
AnyHumanReview ==
    \E k \in 1..Len(configs) :
        configs[k].Judge \in {HumanReviewJudge(r) : r \in ReviewReasons}

\* C30: when a HumanReviewJudge is among the judges and no judge errors, the
\* composite status is Review and Pass is false, for every Reason the
\* HumanReviewJudge is configured with.
C30_HumanReviewForcesReview ==
    (sc.pc = "done" /\ AnyHumanReview /\ ~AnyError) =>
        /\ sc.result.Status = "review"
        /\ sc.result.Pass = FALSE

-----------------------------------------------------------------------------
(* Retries of a vendor provider (SpecRetry) *)

\* The failures the claim calls retryable.
RetryableFailure == {"http429", "http500", "transport"}

\* What the n-th attempt came to, or would come to if it were made.
Effective(n) == IF n <= Len(pr.seen) THEN pr.seen[n] ELSE outcomes[n]

\* k: the index of the first attempt that does not fail retryably; past the
\* last allowed attempt when there is none.
FirstFinal ==
    LET final == {n \in 1..(maxRetries + 1) : Effective(n) \notin RetryableFailure}
    IN IF final = {} THEN maxRetries + 2
       ELSE CHOOSE n \in final : \A m \in final : n <= m

Min(a, b) == IF a <= b THEN a ELSE b

\* The attempts made are the ones the claim counts, and the call returned
\* what the last of them decides.
CountedAttempts ==
    /\ Len(pr.seen) = Min(FirstFinal, maxRetries + 1)
    /\ \A n \in 1..(Len(pr.seen) - 1) : pr.seen[n] \in RetryableFailure
    /\ IF Len(pr.seen) > 0 /\ pr.seen[Len(pr.seen)] = "ok"
       THEN pr.resp # Nil /\ pr.err = Nil
       ELSE IF Len(pr.seen) > 0 /\ pr.seen[Len(pr.seen)] \notin RetryableFailure
       THEN pr.resp = Nil /\ pr.err = <<pr.seen[Len(pr.seen)]>>
       ELSE /\ pr.resp = Nil
            /\ Len(pr.seen) = maxRetries + 1
            /\ pr.err # Nil
            /\ pr.err[1] = "API request failed after "
            /\ pr.err[2] = maxRetries + 1

\* C31 as stated: one Complete call makes exactly min(k, maxRetries + 1) HTTP
\* attempts, k being the index of the first attempt that does not fail with a
\* retryable error: it stops at the first success, stops at the first
\* non-retryable error, and returns an error after maxRetries + 1 attempts
\* when every attempt fails retryably.
C31_ExactAttempts == pr.pc = "returned" => CountedAttempts

\* C31 amended: a Complete call whose request body was built and whose
\* context is not done when it waits before a retry makes exactly
\* min(k, maxRetries + 1) attempts, with the three outcomes as stated; a call
\* that finds its context done at such a wait returns the context's error
\* after fewer than maxRetries + 1 attempts, all failed retryably; a call
\* whose request body cannot be built makes no attempt.
C31_AttemptsUnlessCancelled ==
    pr.pc = "returned" =>
        /\ ~bodyOK <=> pr.err = ErrBuildBody
        /\ pr.err = ErrBuildBody => pr.seen = <<>> /\ pr.resp = Nil
        /\ pr.err = ErrContext =>
              /\ ctxDone
              /\ pr.resp = Nil
              /\ Len(pr.seen) \in 1..maxRetries
              /\ \A n \in 1..Len(pr.seen) : pr.seen[n] \in RetryableFailure
        /\ pr.err \notin {ErrBuildBody, ErrContext} => CountedAttempts
        /\ (bodyOK /\ ~ctxDone) => CountedAttempts

\* Two retryable failures, then a success at the third and last allowed
\* attempt, the context never done.
C31_Witness ==
    /\ pr.pc = "returned"
    /\ ~ctxDone
    /\ maxRetries = 2
    /\ pr.seen = <<"http429", "transport", "ok">>
    /\ pr.resp # Nil

-----------------------------------------------------------------------------
(* ToolCallJudge (SpecToolJudge) *)

\* The non-negated expectations in their listed order, and the negated ones.
ListedPositives == SelectSeq(tjExpected, LAMBDA e : ~e.Negate)
ListedNegatives == {k \in 1..Len(tjExpected) : tjExpected[k].Negate}

\* A negated expectation's tool name occurs among the actual calls.
NegatedOccurs ==
    \E k \in ListedNegatives : \E c \in 1..Len(tjActual) :
        tjActual[c].ToolName = tjExpected[k].ToolName

\* The positive expectations match a subsequence of the actual calls: each is
\* matched by a call strictly later than the one matching the previous.
MatchesSubsequence ==
    \E g \in [1..Len(ListedPositives) -> 1..Len(tjActual)] :
        /\ \A a, b \in 1..Len(ListedPositives) : a < b => g[a] < g[b]
        /\ \A a \in 1..Len(ListedPositives) :
              /\ tjActual[g[a]].ToolName = ListedPositives[a].ToolName
              /\ paramsMatch(ListedPositives[a].Parameters,
                             tjActual[g[a]].Parameters,
                             ListedPositives[a].MatchMode)

-----------------------------------------------------------------------------
(* Properties of Review (SpecReview) *)

\* The line applies a grade: pass, fail or a score from 1 to 5.
AppliesGrade(input) ==
    \/ input \in {"pass", "p", "fail", "f"}
    \/ Atoi(input).ok /\ Atoi(input).n \in 1..5

\* The positions, among the cases presented, whose line applied a grade.
GradedCases == {k \in DOMAIN rv.read : AppliesGrade(rv.read[k].input)}

UngradedKeepGrade ==
    \A idx \in DOMAIN rvGiven :
        (\A k \in GradedCases : rv.read[k].idx # idx) =>
            /\ rvSummary.Results[idx].Status = rvGiven[idx].Status
            /\ rvSummary.Results[idx].Pass = rvGiven[idx].Pass
            /\ rvSummary.Results[idx].Score = rvGiven[idx].Score

\* C33: Review returns the number of presented cases whose input line
\* applied a grade (pass, fail or a score 1-5); skipped cases, cases whose
\* line is not a valid grade and cases not reached before the input ends
\* are not counted and keep their status, pass flag and score.
C33_CountsGradedCases ==
    rv.pc = "returned" =>
        /\ rv.ret = Cardinality(GradedCases)
        /\ UngradedKeepGrade

-----------------------------------------------------------------------------
(* Properties of the MockRegistry under concurrent callers (SpecMock) *)

\* The calls for "search", by their position in served.
SearchSlots == {k \in DOMAIN served : served[k].ToolName = "search"}

\* The call at slot k holds the response resp: it has returned it, or it has
\* selected it and is asleep or about to record it.
Holds(k, resp) ==
    IF served[k].done
    THEN ServedBy(served[k], resp)
    ELSE \E p \in Callers :
            /\ cpc[p] = "selected" /\ clocal[p].slot = k
            /\ clocal[p].content = resp.Content
            /\ clocal[p].errMsg = resp.Error

\* The one-shot responses can be told apart from each other and from the
\* default by what a call returns.
Distinguishable(cfg) ==
    /\ \A i, j \in DOMAIN cfg.Responses :
           i # j => cfg.Responses[i] # cfg.Responses[j]
    /\ \A i \in DOMAIN cfg.Responses : cfg.DefaultResponse # <<cfg.Responses[i]>>

\* C34: with goroutines calling Resolve concurrently on a tool configured
\* with one-shot responses R1..Rn, no Ri is ever held by two calls, and once
\* n calls have been made every Ri is held by exactly one call, whatever the
\* interleaving and the delays.
C34_EachResponseExactlyOnce ==
    ("search" \notin reRegistered /\ Distinguishable(reg.mocks["search"])) =>
        LET rs == reg.mocks["search"].Responses
        IN \A i \in DOMAIN rs :
              LET holders == {k \in SearchSlots : Holds(k, rs[i])}
              IN /\ Cardinality(holders) <= 1
                 /\ Cardinality(SearchSlots) >= Len(rs) => Cardinality(holders) = 1

\* Two distinct one-shot responses, three calls: the call that took the lock
\* second has returned while the first is still asleep, and a third call was
\* made.
C34_Witness ==
    /\ "search" \notin reRegistered
    /\ Distinguishable(reg.mocks["search"])
    /\ Len(reg.mocks["search"].Responses) = 2
    /\ Cardinality(SearchSlots) = 3
    /\ \E k1, k2 \in SearchSlots :
          /\ k1 < k2
          /\ ~served[k1].done /\ Holds(k1, reg.mocks["search"].Responses[1])
          /\ served[k2].done /\ Holds(k2, reg.mocks["search"].Responses[2])

\* The one-shot responses of a tool consumed so far, counted from the calls
\* made while its first config is in place.
Consumed(t) ==
    IF t \in DOMAIN reg.mocks
    THEN Min(Len(ToolEntries(t)), Len(reg.mocks[t].Responses))
    ELSE 0

-----------------------------------------------------------------------------
(* Order of the progress callbacks and termination of Run (Spec, FairSpec) *)

\* C35: with a concurrency of 2 or more the progress callbacks start in
\* increasing order of their completion count; the reported count never goes
\* backwards.
C35_CallbacksInCountOrder ==
    cfgConcurrency >= 2 =>
        \A m, n \in DOMAIN progressCalls :
            m < n => progressCalls[m].index < progressCalls[n].index

\* Run is not stuck: a goroutine is inside runCase, or the caller of Run or
\* a goroutine can take its next step.
NotStuck ==
    \/ \E i \in Cases : gpc[i] = "run"
    \/ ENABLED (Spawn \/ RunReturn \/ \E i \in Cases : Goroutine(i))

\* C36: when every runCase and every progress callback returns, under a fair
\* scheduler Run is never stuck before it has returned, and it returns; by
\* then every case has been admitted at the gate and has run to its end, and
\* every slot of the gate has been given back.
C36_RunReturns ==
    /\ [](mainPc # "returned" => NotStuck)
    /\ <>(/\ mainPc = "returned"
          /\ \A i \in Cases : gpc[i] = "done"
          /\ sem = 0
          /\ wg = 0)

\* Every goroutine has been started, the gate is full and a case waits at it.
C36_Witness ==
    /\ mainPc = "wait"
    /\ sem = cfgConcurrency
    /\ \E i \in Cases : gpc[i] = "acquire"
    /\ \E i \in Cases : gpc[i] = "progress"

-----------------------------------------------------------------------------
(* The summary of a filtered result and the symmetry of Compare (SpecDiff) *)

Mirror(c) ==
    CASE c = "improved"  -> "regressed"
      [] c = "regressed" -> "improved"
      [] c = "new"       -> "removed"
      [] c = "removed"   -> "new"
      [] OTHER           -> c

\* The diff cd of one result is mirrored by the diff of the same name in the
\* case list of the other.
MirroredIn(cd, cases) ==
    /\ Cardinality({j \in 1..Len(cases) : cases[j].CaseName = cd.CaseName}) = 1
    /\ \E j \in 1..Len(cases) :
          /\ cases[j].CaseName = cd.CaseName
          /\ cases[j].Category = Mirror(cd.Category)
          /\ RatEq(cases[j].ScoreDelta, RatNeg(cd.ScoreDelta))
          /\ RatEq(cases[j].ScoreA, cd.ScoreB)
          /\ RatEq(cases[j].ScoreB, cd.ScoreA)

OnlyUnchanged(f) ==
    \A k \in 1..Len(f.Cases) :
        f.Cases[k].Category = "unchanged" /\ RatEq(f.Cases[k].ScoreDelta, Zero)

\* C38: for runs with unique case names and a threshold >= 0, Compare(b, a, t)
\* mirrors Compare(a, b, t): Improved and Regressed change places, New and
\* Removed change places, Unchanged stays, every delta is negated; and the
\* comparison of a run with itself has only Unchanged cases.
C38_SwapMirrors ==
    (/\ df.pc = "returned"
     /\ UniqueNames(runA) /\ UniqueNames(runB)
     /\ RatGE(diffThreshold, Zero)) =>
        LET swapped == Compare(runB, runA, diffThreshold)
        IN /\ Len(swapped.Cases) = Len(df.Cases)
           /\ \A k \in 1..Len(df.Cases) : MirroredIn(df.Cases[k], swapped.Cases)
           /\ \A c \in Categories : swapped.Summary[Mirror(c)] = df.Summary[c]
           /\ OnlyUnchanged(Compare(runA, runA, diffThreshold))
           /\ OnlyUnchanged(Compare(runB, runB, diffThreshold))

\* A result with an improved, a new and a removed case under threshold 0,
\* whose mirror has a regressed case.
C38_Witness ==
    /\ df.pc = "returned"
    /\ UniqueNames(runA) /\ UniqueNames(runB)
    /\ RatEq(diffThreshold, Zero)
    /\ df.Summary["improved"] = 1
    /\ df.Summary["new"] = 1
    /\ df.Summary["removed"] = 1
    /\ Compare(runB, runA, diffThreshold).Summary["regressed"] = 1

====
